---- MODULE Spec2Model ----
(***************************************************************************)
(* A model of langvm/proc-parser: the character cursor (BufferScanner),    *)
(* the raw tokenizer (BasicScanner), the grammar-aware scanner (Parser)    *)
(* and the recursive-descent productions built on List::Expect.            *)
(*                                                                         *)
(* Characters are Unicode code points (integers); a buffer is a sequence   *)
(* of code points.  Rust offsets are 0-based: Buffer[i] in the source is   *)
(* Buffer[i + 1] here.                                                     *)
(***************************************************************************)
EXTENDS Integers, Sequences, FiniteSets, TLC

VARIABLES p, last, pc

vars == <<p, last, pc>>

(***************************************************************************)
(* Characters                                                              *)
(***************************************************************************)

\* The character literals the source and the inputs use, by code point.
Ch ==
    [nl |-> 10, tab |-> 9, cr |-> 13, sp |-> 32, bel |-> 7,
     dq |-> 34, sq |-> 39, bslash |-> 92, slash |-> 47, star |-> 42,
     lparen |-> 40, rparen |-> 41, lbrack |-> 91, rbrack |-> 93,
     lbrace |-> 123, rbrace |-> 125, comma |-> 44, semi |-> 59,
     colon |-> 58, eq |-> 61, gt |-> 62, dollar |-> 36, dot |-> 46,
     plus |-> 43, us |-> 95,
     d0 |-> 48, d1 |-> 49, d7 |-> 55, d8 |-> 56, d9 |-> 57,
     a |-> 97, b |-> 98, c |-> 99, f |-> 102, g |-> 103, n |-> 110,
     o |-> 111, r |-> 114, t |-> 116, u |-> 117, x |-> 120, y |-> 121,
     q |-> 113, z |-> 122, A |-> 65, F |-> 70, U |-> 85, Z |-> 90]

\* Non-ASCII code points with the Unicode Alphabetic property that the
\* inputs may contain (e-acute, lambda).
NonAsciiAlphabetic == {233, 955}

\* Non-ASCII code points of general category Nd/Nl/No that the inputs may
\* contain (superscript two, arabic-indic digit three).
NonAsciiNumeric == {178, 1635}

\* char::is_ascii_alphabetic
is_ascii_alphabetic(ch) ==
    (Ch.A <= ch /\ ch <= Ch.Z) \/ (Ch.a <= ch /\ ch <= Ch.z)

\* char::is_alphabetic
is_alphabetic(ch) == is_ascii_alphabetic(ch) \/ ch \in NonAsciiAlphabetic

\* char::is_numeric
is_numeric(ch) == (Ch.d0 <= ch /\ ch <= Ch.d9) \/ ch \in NonAsciiNumeric

\* char::is_ascii_punctuation
is_ascii_punctuation(ch) ==
    \/ 33 <= ch /\ ch <= 47
    \/ 58 <= ch /\ ch <= 64
    \/ 91 <= ch /\ ch <= 96
    \/ 123 <= ch /\ ch <= 126

\* Vec::contains
contains(seq, e) == \E i \in 1..Len(seq) : seq[i] = e

(***************************************************************************)
(* Results.  A Rust Result<T, E> of a method taking &mut self is a record  *)
(* holding the receiver as the call left it (s), the tag (res), the value  *)
(* (val, when Ok) and the error (err, when Err).                           *)
(***************************************************************************)

Ok(s, v) == [res |-> "Ok", s |-> s, val |-> v, err |-> "none"]

Err(s, e) == [res |-> "Err", s |-> s, val |-> "none", err |-> e]

EOFError(pos) == [kind |-> "EOF", Pos |-> pos]

BadFormatError(begin, end) ==
    [kind |-> "BadFormat", PosRange |-> [Begin |-> begin, End |-> end]]

\* The value of the one-element set S.  A `let x = e;` whose value the rest
\* of a function reads is written The({rest : x \in {e}}): rest, with x
\* standing for the value of e.
The(S) == CHOOSE v \in S : TRUE

(***************************************************************************)
(* Character cursor                                                        *)
(***************************************************************************)

NewBufferScanner(buffer) ==
    [Pos |-> [Offset |-> 0, Line |-> 0, Column |-> 0], Buffer |-> buffer]

BufferScanner_GetChar(bs) ==
    IF bs.Pos.Offset = Len(bs.Buffer)
    THEN Err(bs, EOFError(bs.Pos))
    ELSE Ok(bs, bs.Buffer[bs.Pos.Offset + 1])

\* BufferScanner::Move with a slip: a newline counts the line but leaves
\* the column running.
BufferScanner_Move_KeepsColumn(bs) ==
    The({ IF g.res = "Err" THEN g
          ELSE Ok([bs EXCEPT !.Pos =
                      IF g.val = Ch.nl
                      THEN [Offset |-> bs.Pos.Offset + 1,
                            Line |-> bs.Pos.Line + 1,
                            Column |-> bs.Pos.Column + 1]
                      ELSE [Offset |-> bs.Pos.Offset + 1,
                            Line |-> bs.Pos.Line,
                            Column |-> bs.Pos.Column + 1]],
                  g.val)
        : g \in {BufferScanner_GetChar(bs)} })

\* BufferScanner::Move
BufferScanner_Move(bs) ==
    The({ IF g.res = "Err" THEN g
          ELSE Ok([bs EXCEPT !.Pos =
                      IF g.val = Ch.nl
                      THEN [Offset |-> bs.Pos.Offset + 1,
                            Line |-> bs.Pos.Line + 1,
                            Column |-> 0]
                      ELSE [Offset |-> bs.Pos.Offset + 1,
                            Line |-> bs.Pos.Line,
                            Column |-> bs.Pos.Column + 1]],
                  g.val)
        : g \in {BufferScanner_GetChar(bs)} })

RECURSIVE BufferScanner_GotoNextLine(_)
BufferScanner_GotoNextLine(bs) ==
    IF BufferScanner_Move(bs).res = "Err" THEN BufferScanner_Move(bs)
    ELSE IF BufferScanner_Move(bs).val = Ch.nl
    THEN Ok(BufferScanner_Move(bs).s, "unit")
    ELSE BufferScanner_GotoNextLine(BufferScanner_Move(bs).s)

(***************************************************************************)
(* Raw tokenizer                                                           *)
(***************************************************************************)

\* Lifts a result of the cursor into a result of the BasicScanner s
\* (wrap_result!(BasicScannerError::EOF, ...)).
wrap_result(s, r) == [r EXCEPT !.s = [s EXCEPT !.BufferScanner = r.s]]

GetChar(s) == wrap_result(s, BufferScanner_GetChar(s.BufferScanner))

Move(s) == wrap_result(s, BufferScanner_Move(s.BufferScanner))

GotoNextLine(s) == wrap_result(s, BufferScanner_GotoNextLine(s.BufferScanner))

GetPos(s) == s.BufferScanner.Pos

\* range![begin, scanner]
range(begin, s) == [Begin |-> begin, End |-> GetPos(s)]

\* collect_from_to!(scanner, begin)
collect_from_to(s, begin) ==
    SubSeq(s.BufferScanner.Buffer, begin.Offset + 1, GetPos(s).Offset)

BasicToken(pos, kind, literal) ==
    [Pos |-> pos, Kind |-> kind, Literal |-> literal]

\* BasicTokenKind: a tag and, for Int, the IntFormat payload.
BasicKind(tag) == [tag |-> tag, format |-> "none"]

BasicInt(format) == [tag |-> "Int", format |-> format]

RECURSIVE SkipWhitespaces(_)
SkipWhitespaces(s) ==
    IF GetChar(s).res = "Err" THEN GetChar(s)
    ELSE IF ~(contains(s.Whitespaces, GetChar(s).val)) THEN Ok(s, "unit")
    ELSE IF Move(s).res = "Err" THEN Move(s)
    ELSE SkipWhitespaces(Move(s).s)

ScanLineComment(s) ==
    The({ IF g.res = "Err" THEN g
          ELSE Ok(g.s, BasicToken(range(GetPos(s), g.s), BasicKind("Comment"),
                                  collect_from_to(g.s, GetPos(s))))
        : g \in {GotoNextLine(s)} })

RECURSIVE ScanQuotedCommentLoop(_)
ScanQuotedCommentLoop(s) ==
    The({ IF m1.res = "Err" THEN m1
          ELSE IF m1.val = Ch.star
               THEN The({ IF m2.res = "Err" THEN m2
                          ELSE IF m2.val = Ch.slash THEN Ok(m2.s, "unit")
                          ELSE ScanQuotedCommentLoop(m2.s)
                        : m2 \in {Move(m1.s)} })
               ELSE ScanQuotedCommentLoop(m1.s)
        : m1 \in {Move(s)} })

ScanQuotedComment(s) ==
    The({ IF l.res = "Err" THEN l
          ELSE Ok(l.s, BasicToken(range(GetPos(s), l.s), BasicKind("Comment"),
                                  collect_from_to(l.s, GetPos(s))))
        : l \in {ScanQuotedCommentLoop(s)} })

ScanComment(s) ==
    The({ IF m.res = "Err" THEN m
          ELSE IF m.val = Ch.slash THEN ScanLineComment(m.s)
          ELSE IF m.val = Ch.star THEN ScanQuotedComment(m.s)
          ELSE Err(m.s, BadFormatError(GetPos(s), GetPos(m.s)))
        : m \in {Move(s)} })

RECURSIVE ScanIdentLoop(_)
ScanIdentLoop(s) ==
    IF GetChar(s).res = "Err" THEN GetChar(s)
    ELSE IF ~(\/ is_ascii_alphabetic(GetChar(s).val)
              \/ is_numeric(GetChar(s).val)
              \/ GetChar(s).val = Ch.us) THEN Ok(s, "unit")
    ELSE IF Move(s).res = "Err" THEN Move(s)
    ELSE ScanIdentLoop(Move(s).s)

ScanIdent(s) ==
    The({ IF l.res = "Err" THEN l
          ELSE Ok(l.s, BasicToken(range(GetPos(s), l.s), BasicKind("Ident"),
                                  collect_from_to(l.s, GetPos(s))))
        : l \in {ScanIdentLoop(s)} })

RECURSIVE ScanHexLoop(_)
ScanHexLoop(s) ==
    IF GetChar(s).res = "Err" THEN GetChar(s)
    ELSE IF ~(\/ Ch.d0 <= GetChar(s).val /\ GetChar(s).val <= Ch.d9
              \/ Ch.a <= GetChar(s).val /\ GetChar(s).val <= Ch.f)
         THEN Ok(s, "unit")
    ELSE IF Move(s).res = "Err" THEN Move(s)
    ELSE ScanHexLoop(Move(s).s)

ScanHex(s) ==
    The({ IF l.res = "Err" THEN l
          ELSE Ok(l.s, BasicToken(range(GetPos(s), l.s), BasicInt("HEX"),
                                  collect_from_to(l.s, GetPos(s))))
        : l \in {ScanHexLoop(s)} })

RECURSIVE ScanDecLoop(_)
ScanDecLoop(s) ==
    IF GetChar(s).res = "Err" THEN GetChar(s)
    ELSE IF ~(Ch.d0 <= GetChar(s).val /\ GetChar(s).val <= Ch.d9) THEN Ok(s, "unit")
    ELSE IF Move(s).res = "Err" THEN Move(s)
    ELSE ScanDecLoop(Move(s).s)

ScanDec(s) ==
    The({ IF l.res = "Err" THEN l
          ELSE Ok(l.s, BasicToken(range(GetPos(s), l.s), BasicInt("DEC"),
                                  collect_from_to(l.s, GetPos(s))))
        : l \in {ScanDecLoop(s)} })

RECURSIVE ScanOctLoop(_)
ScanOctLoop(s) ==
    IF GetChar(s).res = "Err" THEN GetChar(s)
    ELSE IF ~(Ch.d0 <= GetChar(s).val /\ GetChar(s).val <= Ch.d7) THEN Ok(s, "unit")
    ELSE IF Move(s).res = "Err" THEN Move(s)
    ELSE ScanOctLoop(Move(s).s)

ScanOct(s) ==
    The({ IF l.res = "Err" THEN l
          ELSE Ok(l.s, BasicToken(range(GetPos(s), l.s), BasicInt("OCT"),
                                  collect_from_to(l.s, GetPos(s))))
        : l \in {ScanOctLoop(s)} })

RECURSIVE ScanBinLoop(_)
ScanBinLoop(s) ==
    IF GetChar(s).res = "Err" THEN GetChar(s)
    ELSE IF ~(GetChar(s).val = Ch.d0 \/ GetChar(s).val = Ch.d1) THEN Ok(s, "unit")
    ELSE IF Move(s).res = "Err" THEN Move(s)
    ELSE ScanBinLoop(Move(s).s)

ScanBin(s) ==
    The({ IF l.res = "Err" THEN l
          ELSE Ok(l.s, BasicToken(range(GetPos(s), l.s), BasicInt("BIN"),
                                  collect_from_to(l.s, GetPos(s))))
        : l \in {ScanBinLoop(s)} })

\* ScanDigit with a slip: a `0` that no base letter follows is rescanned as
\* a decimal literal instead of being rejected.
ScanDigit_ZeroIsDecimal(s) ==
    The({ IF m1.res = "Err" THEN m1
          ELSE IF m1.val = Ch.d0
               THEN The({ IF m2.res = "Err" THEN m2
                          ELSE IF m2.val = Ch.x THEN ScanHex(m2.s)
                          ELSE IF m2.val = Ch.o THEN ScanOct(m2.s)
                          ELSE IF m2.val = Ch.b THEN ScanBin(m2.s)
                          ELSE ScanDec([m2.s EXCEPT
                                           !.BufferScanner.Pos = GetPos(s)])
                        : m2 \in {Move(m1.s)} })
               ELSE ScanDec([m1.s EXCEPT !.BufferScanner.Pos = GetPos(s)])
        : m1 \in {Move(s)} })

\* BasicScanner::ScanDigit
ScanDigit(s) ==
    The({ IF m1.res = "Err" THEN m1
          ELSE IF m1.val = Ch.d0
               THEN The({ IF m2.res = "Err" THEN m2
                          ELSE IF m2.val = Ch.x THEN ScanHex(m2.s)
                          ELSE IF m2.val = Ch.o THEN ScanOct(m2.s)
                          ELSE IF m2.val = Ch.b THEN ScanBin(m2.s)
                          ELSE Err(m2.s, BadFormatError(GetPos(s), GetPos(m2.s)))
                        : m2 \in {Move(m1.s)} })
               ELSE ScanDec([m1.s EXCEPT !.BufferScanner.Pos = GetPos(s)])
        : m1 \in {Move(s)} })

\* The value of a hexadecimal digit, -1 for any other character.
HexDigit(ch) ==
    IF Ch.d0 <= ch /\ ch <= Ch.d9 THEN ch - Ch.d0
    ELSE IF Ch.a <= ch /\ ch <= Ch.f THEN ch - Ch.a + 10
    ELSE IF Ch.A <= ch /\ ch <= Ch.F THEN ch - Ch.A + 10
    ELSE -1

\* char::MAX + 1.  from_u32 rejects every value from here on, so the
\* u32 values above char::MAX are all represented by this one.
CharLimit == 1114112

\* u32::from_str_radix(seq, 16): an optional leading '+', then one or more
\* hexadecimal digits; -1 stands for Err.  (Eight digits cannot overflow u32.)
RECURSIVE HexValue(_, _)
HexValue(digits, acc) ==
    IF digits = <<>> THEN acc
    ELSE IF HexDigit(Head(digits)) < 0 THEN -1
    ELSE HexValue(Tail(digits),
                  IF acc * 16 + HexDigit(Head(digits)) >= CharLimit
                  THEN CharLimit
                  ELSE acc * 16 + HexDigit(Head(digits)))

from_str_radix(seq) ==
    IF seq # <<>> /\ Head(seq) = Ch.plus
    THEN (IF Tail(seq) = <<>> THEN -1 ELSE HexValue(Tail(seq), 0))
    ELSE (IF seq = <<>> THEN -1 ELSE HexValue(seq, 0))

\* char::from_u32: TRUE when Some, i.e. a Unicode scalar value.
from_u32_is_some(v) == v < CharLimit /\ ~(55296 <= v /\ v <= 57343)

RECURSIVE ScanUnicodeHexLoop(_, _, _)
ScanUnicodeHexLoop(s, runesN, seq) ==
    IF runesN = 0 THEN Ok(s, seq)
    ELSE IF Move(s).res = "Err" THEN Move(s)
    ELSE ScanUnicodeHexLoop(Move(s).s, runesN - 1, Append(seq, Move(s).val))

ScanUnicodeHex(s, runesN) ==
    The({ IF l.res = "Err" THEN l
          ELSE The({ IF v >= 0 /\ from_u32_is_some(v) THEN Ok(l.s, v)
                     ELSE Err(l.s, BadFormatError(GetPos(s), GetPos(l.s)))
                   : v \in {from_str_radix(l.val)} })
        : l \in {ScanUnicodeHexLoop(s, runesN, <<>>)} })

ScanEscapeChar(s, quote) ==
    The({ IF m.res = "Err" THEN m
          ELSE IF m.val = Ch.n THEN Ok(m.s, Ch.nl)
          ELSE IF m.val = Ch.t THEN Ok(m.s, Ch.tab)
          ELSE IF m.val = Ch.r THEN Ok(m.s, Ch.cr)
          ELSE IF m.val = Ch.bslash THEN Ok(m.s, Ch.bslash)
          ELSE IF m.val = Ch.x THEN ScanUnicodeHex(m.s, 2)
          ELSE IF m.val = Ch.u THEN ScanUnicodeHex(m.s, 4)
          ELSE IF m.val = Ch.U THEN ScanUnicodeHex(m.s, 8)
          ELSE IF m.val = quote THEN Ok(m.s, quote)
          ELSE Err(m.s, BadFormatError(GetPos(s), GetPos(m.s)))
        : m \in {Move(s)} })

RECURSIVE ScanStringLoop_ClosesAtEnd(_, _, _)
\* The loop of ScanString with a slip: the end of the buffer closes the
\* literal like a quote does.
ScanStringLoop_ClosesAtEnd(s, quote, seq) ==
    IF Move(s).res = "Err" THEN Ok(s, seq)
    ELSE IF Move(s).val = Ch.bslash
    THEN The({ IF e.res = "Err" THEN e
               ELSE ScanStringLoop_ClosesAtEnd(e.s, quote, Append(seq, e.val))
             : e \in {ScanEscapeChar(Move(s).s, quote)} })
    ELSE IF Move(s).val = quote THEN Ok(Move(s).s, seq)
    ELSE ScanStringLoop_ClosesAtEnd(Move(s).s, quote, Append(seq, Move(s).val))

RECURSIVE ScanStringLoop(_, _, _)
\* The loop of BasicScanner::ScanString
ScanStringLoop(s, quote, seq) ==
    IF Move(s).res = "Err" THEN Move(s)
    ELSE IF Move(s).val = Ch.bslash
    THEN The({ IF e.res = "Err" THEN e
               ELSE ScanStringLoop(e.s, quote, Append(seq, e.val))
             : e \in {ScanEscapeChar(Move(s).s, quote)} })
    ELSE IF Move(s).val = quote THEN Ok(Move(s).s, seq)
    ELSE ScanStringLoop(Move(s).s, quote, Append(seq, Move(s).val))

ScanString(s, quote) ==
    The({ IF m.res = "Err" THEN m
          ELSE The({ IF l.res = "Err" THEN l
                     ELSE Ok(l.s, BasicToken(range(GetPos(s), l.s),
                                             BasicKind("String"), l.val))
                   : l \in {ScanStringLoop(m.s, quote, <<>>)} })
        : m \in {Move(s)} })

RECURSIVE ScanOperatorLoop(_)
ScanOperatorLoop(s) ==
    IF GetChar(s).res = "Err" THEN GetChar(s)
    ELSE IF GetChar(s).val = Ch.dq \/ GetChar(s).val = Ch.sq THEN Ok(s, "unit")
    ELSE IF ~is_ascii_punctuation(GetChar(s).val) THEN Ok(s, "unit")
    ELSE IF contains(s.Delimiters, GetChar(s).val) THEN Ok(s, "unit")
    ELSE IF Move(s).res = "Err" THEN Move(s)
    ELSE ScanOperatorLoop(Move(s).s)

ScanOperator(s) ==
    The({ IF l.res = "Err" THEN l
          ELSE Ok(l.s, BasicToken(range(GetPos(s), l.s), BasicKind("Operator"),
                                  collect_from_to(l.s, GetPos(s))))
        : l \in {ScanOperatorLoop(s)} })

\* The Delimiter arm of BasicScanner::Scan.  The fields of the struct
\* expression are evaluated in the order written: Pos (the range, read
\* before the cursor moves), then Literal (the Move).
ScanDelimiter(s, begin) ==
    The({ IF m.res = "Err" THEN m
          ELSE Ok(m.s, BasicToken(range(begin, s), BasicKind("Delimiter"),
                                  <<m.val>>))
        : m \in {Move(s)} })

\* BasicScanner::Scan
Scan(s) ==
    The({ IF w.res = "Err" THEN w
          ELSE IF GetChar(w.s).res = "Err" THEN GetChar(w.s)
          ELSE IF is_alphabetic(GetChar(w.s).val) THEN ScanIdent(w.s)
          ELSE IF is_numeric(GetChar(w.s).val) THEN ScanDigit(w.s)
          ELSE IF contains(w.s.Delimiters, GetChar(w.s).val)
               THEN ScanDelimiter(w.s, GetPos(w.s))
          ELSE IF GetChar(w.s).val = Ch.us THEN ScanIdent(w.s)
          ELSE IF GetChar(w.s).val = Ch.dq THEN ScanString(w.s, Ch.dq)
          ELSE IF GetChar(w.s).val = Ch.sq THEN ScanString(w.s, Ch.sq)
          ELSE IF GetChar(w.s).val = Ch.slash THEN ScanComment(w.s)
          ELSE IF is_ascii_punctuation(GetChar(w.s).val) THEN ScanOperator(w.s)
          ELSE Err(w.s, EOFError(GetPos(w.s)))
        : w \in {SkipWhitespaces(s)} })

(***************************************************************************)
(* Grammar-aware scanner                                                   *)
(***************************************************************************)

\* TokenKind: a tag and, for Int, the IntFormat payload.
TokenKind(tag) == [tag |-> tag, format |-> "none"]

\* tag_matches!: std::mem::discriminant equality.
tag_matches(e, k) == e.tag = k.tag

\* Token::default()
DefaultToken ==
    [Pos |-> [Begin |-> [Offset |-> 0, Line |-> 0, Column |-> 0],
              End |-> [Offset |-> 0, Line |-> 0, Column |-> 0]],
     Kind |-> TokenKind("None"),
     Literal |-> <<>>]

\* KeywordLookup with a slip: the newline is entered as a SEMICOLON.
KeywordLookup_NewlineIsSemicolon ==
    { <<<<Ch.colon, Ch.eq>>, "DEFINE">>,
      <<<<Ch.eq, Ch.gt>>, "ARROW">>,
      <<<<Ch.dollar>>, "FIELD">>,
      <<<<Ch.lparen>>, "LPAREN">>,
      <<<<Ch.lbrack>>, "LBRACK">>,
      <<<<Ch.lbrace>>, "LBRACE">>,
      <<<<Ch.rparen>>, "RPAREN">>,
      <<<<Ch.rbrack>>, "RBRACK">>,
      <<<<Ch.rbrace>>, "RBRACE">>,
      <<<<Ch.colon>>, "COLON">>,
      <<<<Ch.semi>>, "SEMICOLON">>,
      <<<<Ch.comma>>, "COMMA">>,
      <<<<Ch.dot>>, "DOT">>,
      <<<<Ch.nl>>, "SEMICOLON">> }

\* TokenKind::KeywordLookup(): the (literal, kind) pairs of def_tokens!.
KeywordLookup ==
    { <<<<Ch.colon, Ch.eq>>, "DEFINE">>,
      <<<<Ch.eq, Ch.gt>>, "ARROW">>,
      <<<<Ch.dollar>>, "FIELD">>,
      <<<<Ch.lparen>>, "LPAREN">>,
      <<<<Ch.lbrack>>, "LBRACK">>,
      <<<<Ch.lbrace>>, "LBRACE">>,
      <<<<Ch.rparen>>, "RPAREN">>,
      <<<<Ch.rbrack>>, "RBRACK">>,
      <<<<Ch.rbrace>>, "RBRACE">>,
      <<<<Ch.colon>>, "COLON">>,
      <<<<Ch.semi>>, "SEMICOLON">>,
      <<<<Ch.comma>>, "COMMA">>,
      <<<<Ch.dot>>, "DOT">>,
      <<<<Ch.nl>>, "NEWLINE">> }

\* HashMap::get(literal).is_some()
HasKey(table, literal) == \E e \in table : e[1] = literal

\* HashMap::get(literal).unwrap()
Lookup(table, literal) ==
    TokenKind((CHOOSE e \in table : e[1] = literal)[2])

\* The characters Parser::new installs as delimiters.
Delimiters ==
    <<Ch.lparen, Ch.rparen, Ch.lbrack, Ch.rbrack, Ch.lbrace, Ch.rbrace,
      Ch.comma, Ch.semi, Ch.slash, Ch.nl>>

\* The characters Parser::new installs as whitespace.
Whitespaces == <<Ch.sp, Ch.tab, Ch.cr>>

\* Parser::new.  Trace is a history of the Scan calls made on the parser
\* (who called, which token was current); the code has no such field.
NewParser(buffer) ==
    [Scanner |-> [BufferScanner |-> NewBufferScanner(buffer),
                  Delimiters |-> Delimiters,
                  Whitespaces |-> Whitespaces],
     KeywordLookup |-> KeywordLookup,
     Token |-> DefaultToken,
     CompleteSemicolon |-> FALSE,
     Trace |-> <<>>]

Panic(q) == [res |-> "Panic", s |-> q, val |-> "none", err |-> "panic"]

ScannerError(err) == [type |-> "ScannerError", err |-> err]

UnexpectedTokenError(want, have) ==
    [type |-> "UnexpectedToken", Want |-> want, Have |-> have]

\* The kind Parser::Scan gives the raw token bt (lines 68-89); "Comment"
\* and "Panic" stand for the two arms that do not produce a kind.
MapKind(q, bt) ==
    IF bt.Kind.tag = "Ident"
    THEN IF HasKey(q.KeywordLookup, bt.Literal)
         THEN Lookup(q.KeywordLookup, bt.Literal) ELSE TokenKind("Ident")
    ELSE IF bt.Kind.tag = "Operator"
    THEN IF HasKey(q.KeywordLookup, bt.Literal)
         THEN Lookup(q.KeywordLookup, bt.Literal) ELSE TokenKind("Operator")
    ELSE IF bt.Kind.tag = "Delimiter"
    THEN IF HasKey(q.KeywordLookup, bt.Literal)
         THEN Lookup(q.KeywordLookup, bt.Literal) ELSE TokenKind("Panic")
    ELSE IF bt.Kind.tag = "Comment" THEN TokenKind("Comment")
    ELSE bt.Kind

\* EndsStatement with a slip: RBRACK counted among the closing brackets.
EndsStatement_WithRBRACK(kind) ==
    kind.tag \in {"Ident", "Int", "RBRACE", "RPAREN", "RBRACK"}

\* The pending-terminator flag after a token of this kind (lines 104-109).
EndsStatement(kind) == kind.tag \in {"Ident", "Int", "RBRACE", "RPAREN"}

\* OnScanError with a slip: the check of the current token is missing, so
\* end-of-input is returned again and again.
OnScanError_RepeatsEOF(q, err) ==
    IF err.kind = "EOF"
    THEN Ok([q EXCEPT !.Token.Kind = TokenKind("EOF")],
            [q.Token EXCEPT !.Kind = TokenKind("EOF")])
    ELSE Err(q, ScannerError(err))

\* The on_err! arm of Parser::Scan (lines 54-63): what Scan returns when
\* the raw tokenizer failed with err, on the parser q.
OnScanError(q, err) ==
    IF err.kind = "EOF"
    THEN IF q.Token.Kind.tag = "EOF"
         THEN Err(q, ScannerError(err))
         ELSE Ok([q EXCEPT !.Token.Kind = TokenKind("EOF")],
                 [q.Token EXCEPT !.Kind = TokenKind("EOF")])
    ELSE Err(q, ScannerError(err))

\* The end of Parser::Scan (lines 104-118, and 94-100 for the synthesized
\* `;`): the flag and the current token are set and the token is returned.
SetToken(q, complete, token) ==
    Ok([q EXCEPT !.CompleteSemicolon = complete, !.Token = token], token)

\* Parser::Scan from line 90 on: the raw tokenizer has returned the token
\* bt, whose kind maps to kind, on the parser q.
RECURSIVE Parser_Scan(_)
Parser_ScanToken(q, bt, kind) ==
    IF kind.tag = "Panic" THEN Panic(q)
    ELSE IF kind.tag = "Comment" THEN Parser_Scan(q)
    ELSE IF kind.tag = "NEWLINE"
    THEN IF q.CompleteSemicolon
         THEN SetToken(q, FALSE, [Pos |-> bt.Pos,
                                  Kind |-> TokenKind("SEMICOLON"),
                                  Literal |-> <<Ch.semi>>])
         ELSE Parser_Scan(q)
    ELSE SetToken(q, EndsStatement(kind), [Pos |-> bt.Pos,
                                           Kind |-> kind,
                                           Literal |-> bt.Literal])

\* Parser::Scan from the on_err! of line 54 on: r is what
\* self.Scanner.Scan() returned, on the parser q.
Parser_ScanResult(q, r) ==
    IF r.res = "Err"
    THEN OnScanError([q EXCEPT !.Scanner = r.s], r.err)
    ELSE Parser_ScanToken([q EXCEPT !.Scanner = r.s], r.val, MapKind(q, r.val))

\* Parser::Scan
Parser_Scan(q) == Parser_ScanResult(q, Scan(q.Scanner))

\* The result r of a Parser::Scan that `who` called on the parser q, with
\* the call entered in the history: the token that was current (its kind
\* and where it begins), the cursor before and after, the kind that is
\* current afterwards, and the outcome.
Traced(q, who, r) ==
    [r EXCEPT !.s.Trace =
        Append(q.Trace, [by |-> who,
                         consumed |-> q.Token.Kind.tag,
                         at |-> q.Token.Pos.Begin.Offset,
                         from |-> GetPos(q.Scanner).Offset,
                         to |-> GetPos(r.s.Scanner).Offset,
                         got |-> r.s.Token.Kind.tag,
                         res |-> r.res,
                         err |-> r.err])]

\* A call of Parser::Scan by `who`.
ScanBy(q, who) == Traced(q, who, Parser_Scan(q))

\* `r?; Ok(v)`: the failure of r, or v on the parser that r left.
Returning(v, r) == IF r.res # "Ok" THEN r ELSE Ok(r.s, v)

\* Parser::GetTokenAndScan
GetTokenAndScan(q, who) == Returning(q.Token, ScanBy(q, who))

\* Match with a slip: the kinds are compared whole, payload included.
Match_ComparesPayload(q, term) ==
    IF q.Token.Kind # term
    THEN Err(q, UnexpectedTokenError(term, q.Token))
    ELSE Ok(q, "unit")

\* Parser::Match
Match(q, term) ==
    IF ~tag_matches(q.Token.Kind, term)
    THEN Err(q, UnexpectedTokenError(term, q.Token))
    ELSE Ok(q, "unit")

\* Parser::MatchAndScan
MatchAndScan(q, term, who) ==
    LET m == Match(q, term) IN
    IF m.res # "Ok" THEN m ELSE ScanBy(m.s, who)

(***************************************************************************)
(* Productions.  T::Expect(p) is Expect(T, p); List::<T>::Expect is        *)
(* List_Expect.  A node is a record with its type name in `node`.  Each    *)
(* production enters its scans in the history under its name, a tuple.     *)
(*                                                                         *)
(* A production is a sequence of steps that each may fail (`?`).  The      *)
(* production applies its first step; X_Expect_AfterS(begin, ..., r) is    *)
(* the rest of X::Expect once step S has returned r: it returns r when r   *)
(* is a failure and otherwise applies the next step to the parser r left.  *)
(* begin is `let begin = p.GetPos()`, and the arguments in between are the *)
(* values bound so far.                                                    *)
(***************************************************************************)

RECURSIVE Expect(_, _)
RECURSIVE List_Expect(_, _, _, _)
RECURSIVE List_ExpectLoop(_, _, _, _, _)
RECURSIVE List_Expect_AfterElement(_, _, _, _, _)
RECURSIVE List_Expect_AfterDelimiter(_, _, _, _, _)
RECURSIVE List_Expect_AfterLoop(_, _, _, _)
RECURSIVE Ident_Expect_AfterScan(_)
RECURSIVE Field_Expect_AfterFIELD(_, _)
RECURSIVE Field_Expect_AfterName(_, _)
RECURSIVE Field_Expect_AfterCOLON(_, _, _)
RECURSIVE Field_Expect_AfterRule(_, _, _)
RECURSIVE Pattern_Expect_AfterAhead(_, _)
RECURSIVE Pattern_Expect_AfterARROW(_, _, _)
RECURSIVE Pattern_Expect_AfterRule(_, _, _)
RECURSIVE Branch_Expect_AfterLBRACE(_, _)
RECURSIVE Branch_Expect_AfterPatterns(_, _)
RECURSIVE Branch_Expect_AfterScan(_, _, _)
RECURSIVE ListRule_Expect_AfterLPAREN(_, _)
RECURSIVE ListRule_Expect_AfterField(_, _)
RECURSIVE ListRule_Expect_AfterCOMMA(_, _, _)
RECURSIVE ListRule_Expect_AfterDelimiter(_, _, _)
RECURSIVE ListRule_Expect_AfterCOMMA2(_, _, _, _)
RECURSIVE ListRule_Expect_AfterTerm(_, _, _, _)
RECURSIVE ListRule_Expect_AfterRPAREN(_, _, _, _, _)
RECURSIVE Def_Expect_AfterName(_, _)
RECURSIVE Def_Expect_AfterDEFINE(_, _, _)
RECURSIVE Def_Expect_AfterRule(_, _, _)
RECURSIVE File_Expect_AfterDefinitions(_, _)

\* The name under which a List<T> enters its scans in the history.
ListOf(T, delimiter, terminator) == <<"List", T, delimiter.tag, terminator.tag>>

\* List_ExpectLoop with a slip: the list scans on when it meets its
\* terminator, as a production that owns its closing token would.
List_ExpectLoop_ConsumesTerminator(q, T, delimiter, terminator, list) ==
    IF tag_matches(q.Token.Kind, terminator)
    THEN Returning(list, ScanBy(q, ListOf(T, delimiter, terminator)))
    ELSE List_Expect_AfterElement(T, delimiter, terminator, list, Expect(T, q))

\* The loop of List::Expect (lines 37-52), from its top; list is the Vec
\* built so far.
List_ExpectLoop(q, T, delimiter, terminator, list) ==
    IF tag_matches(q.Token.Kind, terminator)
    THEN Ok(q, list)
    ELSE List_Expect_AfterElement(T, delimiter, terminator, list, Expect(T, q))

\* Lines 43-51: T::Expect(p) has returned e.
List_Expect_AfterElement(T, delimiter, terminator, list, e) ==
    IF e.res # "Ok" THEN e
    ELSE IF tag_matches(e.s.Token.Kind, delimiter)
    THEN List_Expect_AfterDelimiter(T, delimiter, terminator,
                                    Append(list, e.val),
                                    ScanBy(e.s, ListOf(T, delimiter, terminator)))
    ELSE LET m == Match(e.s, terminator) IN
         IF m.res # "Ok" THEN m ELSE Ok(m.s, Append(list, e.val))

\* Line 46: the p.Scan() of the delimiter has returned sc.
List_Expect_AfterDelimiter(T, delimiter, terminator, list, sc) ==
    IF sc.res # "Ok" THEN sc
    ELSE List_ExpectLoop(sc.s, T, delimiter, terminator, list)

\* Lines 54-59: the loop has ended with l.
List_Expect_AfterLoop(begin, delimiter, terminator, l) ==
    IF l.res # "Ok" THEN l
    ELSE Ok(l.s, [node |-> "List",
                  Pos |-> range(begin, l.s.Scanner),
                  Elements |-> l.val,
                  Delimiter |-> delimiter,
                  Term |-> terminator])

\* List::Expect
List_Expect(q, T, delimiter, terminator) ==
    List_Expect_AfterLoop(GetPos(q.Scanner), delimiter, terminator,
                          List_ExpectLoop(q, T, delimiter, terminator, <<>>))

\* Ident::Expect
Ident_Expect(q) == Ident_Expect_AfterScan(GetTokenAndScan(q, <<"Ident">>))

\* Lines 66-79: p.GetTokenAndScan() has returned t.
Ident_Expect_AfterScan(t) ==
    IF t.res # "Ok" THEN t
    ELSE IF t.val.Kind.tag = "Ident"
    THEN Ok(t.s, [node |-> "Ident", Pos |-> t.val.Pos, Token |-> t.val])
    ELSE Err(t.s, UnexpectedTokenError(TokenKind("Ident"), t.val))

\* Field::Expect
Field_Expect(q) ==
    Field_Expect_AfterFIELD(GetPos(q.Scanner),
                            MatchAndScan(q, TokenKind("FIELD"), <<"Field">>))

Field_Expect_AfterFIELD(begin, m) ==
    IF m.res # "Ok" THEN m
    ELSE Field_Expect_AfterName(begin, Ident_Expect(m.s))

Field_Expect_AfterName(begin, name) ==
    IF name.res # "Ok" THEN name
    ELSE Field_Expect_AfterCOLON(begin, name.val,
                                 MatchAndScan(name.s, TokenKind("COLON"),
                                              <<"Field">>))

Field_Expect_AfterCOLON(begin, name, m) ==
    IF m.res # "Ok" THEN m
    ELSE Field_Expect_AfterRule(begin, name, Ident_Expect(m.s))

\* Field_Expect_AfterRule with a slip: the two identifiers are stored in
\* each other's place.
Field_Expect_AfterRule_SwapsNameAndRule(begin, name, rule) ==
    IF rule.res # "Ok" THEN rule
    ELSE Ok(rule.s, [node |-> "Field",
                     Name |-> rule.val,
                     Rule |-> name,
                     Pos |-> range(begin, rule.s.Scanner)])

Field_Expect_AfterRule(begin, name, rule) ==
    IF rule.res # "Ok" THEN rule
    ELSE Ok(rule.s, [node |-> "Field",
                     Name |-> name,
                     Rule |-> rule.val,
                     Pos |-> range(begin, rule.s.Scanner)])

\* Pattern_Expect_AfterRule with a slip: the pattern consumes the `;` that
\* ends its body, which belongs to the enclosing Branch.
Pattern_Expect_AfterRule_ConsumesTerminator(begin, ahead, rule) ==
    IF rule.res # "Ok" THEN rule
    ELSE LET sc == ScanBy(rule.s, <<"Pattern">>) IN
         IF sc.res # "Ok" THEN sc
         ELSE Ok(sc.s, [node |-> "Pattern",
                        Ahead |-> ahead,
                        Rule |-> rule.val,
                        Pos |-> range(begin, sc.s.Scanner)])

\* Pattern::Expect
Pattern_Expect(q) ==
    Pattern_Expect_AfterAhead(GetPos(q.Scanner), Ident_Expect(q))

Pattern_Expect_AfterAhead(begin, ahead) ==
    IF ahead.res # "Ok" THEN ahead
    ELSE Pattern_Expect_AfterARROW(begin, ahead.val,
                                   MatchAndScan(ahead.s, TokenKind("ARROW"),
                                                <<"Pattern">>))

Pattern_Expect_AfterARROW(begin, ahead, m) ==
    IF m.res # "Ok" THEN m
    ELSE Pattern_Expect_AfterRule(begin, ahead,
                                  List_Expect(m.s, "Node", TokenKind("COMMA"),
                                              TokenKind("SEMICOLON")))

Pattern_Expect_AfterRule(begin, ahead, rule) ==
    IF rule.res # "Ok" THEN rule
    ELSE Ok(rule.s, [node |-> "Pattern",
                     Ahead |-> ahead,
                     Rule |-> rule.val,
                     Pos |-> range(begin, rule.s.Scanner)])

\* Branch::Expect
Branch_Expect(q) ==
    Branch_Expect_AfterLBRACE(GetPos(q.Scanner),
                              MatchAndScan(q, TokenKind("LBRACE"), <<"Branch">>))

Branch_Expect_AfterLBRACE(begin, m) ==
    IF m.res # "Ok" THEN m
    ELSE Branch_Expect_AfterPatterns(begin,
                                     List_Expect(m.s, "Pattern",
                                                 TokenKind("SEMICOLON"),
                                                 TokenKind("RBRACE")))

Branch_Expect_AfterPatterns(begin, patterns) ==
    IF patterns.res # "Ok" THEN patterns
    ELSE Branch_Expect_AfterScan(begin, patterns.val,
                                 ScanBy(patterns.s, <<"Branch">>))

Branch_Expect_AfterScan(begin, patterns, sc) ==
    IF sc.res # "Ok" THEN sc
    ELSE Ok(sc.s, [node |-> "Branch",
                   Patterns |-> patterns,
                   Pos |-> range(begin, sc.s.Scanner)])

\* ListRule::Expect
ListRule_Expect(q) ==
    ListRule_Expect_AfterLPAREN(GetPos(q.Scanner),
                                MatchAndScan(q, TokenKind("LPAREN"),
                                             <<"ListRule">>))

ListRule_Expect_AfterLPAREN(begin, m) ==
    IF m.res # "Ok" THEN m
    ELSE ListRule_Expect_AfterField(begin, Field_Expect(m.s))

ListRule_Expect_AfterField(begin, field) ==
    IF field.res # "Ok" THEN field
    ELSE ListRule_Expect_AfterCOMMA(begin, field.val,
                                    MatchAndScan(field.s, TokenKind("COMMA"),
                                                 <<"ListRule">>))

ListRule_Expect_AfterCOMMA(begin, field, m) ==
    IF m.res # "Ok" THEN m
    ELSE ListRule_Expect_AfterDelimiter(begin, field, Ident_Expect(m.s))

ListRule_Expect_AfterDelimiter(begin, field, delimiter) ==
    IF delimiter.res # "Ok" THEN delimiter
    ELSE ListRule_Expect_AfterCOMMA2(begin, field, delimiter.val,
                                     MatchAndScan(delimiter.s,
                                                  TokenKind("COMMA"),
                                                  <<"ListRule">>))

ListRule_Expect_AfterCOMMA2(begin, field, delimiter, m) ==
    IF m.res # "Ok" THEN m
    ELSE ListRule_Expect_AfterTerm(begin, field, delimiter, Ident_Expect(m.s))

ListRule_Expect_AfterTerm(begin, field, delimiter, term) ==
    IF term.res # "Ok" THEN term
    ELSE ListRule_Expect_AfterRPAREN(begin, field, delimiter, term.val,
                                     MatchAndScan(term.s, TokenKind("RPAREN"),
                                                  <<"ListRule">>))

ListRule_Expect_AfterRPAREN(begin, field, delimiter, term, m) ==
    IF m.res # "Ok" THEN m
    ELSE Ok(m.s, [node |-> "ListRule",
                  Field |-> field,
                  Delimiter |-> delimiter,
                  Term |-> term,
                  Pos |-> range(begin, m.s.Scanner)])

\* The Node that boxes the result r of the production of a variant.
Boxed(variant, r) ==
    IF r.res # "Ok" THEN r
    ELSE Ok(r.s, [node |-> "Node", variant |-> variant, box |-> r.val])

\* Node::Expect; the variant is kept with the boxed node.
Node_Expect(q) ==
    IF q.Token.Kind.tag = "Ident" THEN Boxed("Ident", Ident_Expect(q))
    ELSE IF q.Token.Kind.tag = "FIELD" THEN Boxed("Field", Field_Expect(q))
    ELSE IF q.Token.Kind.tag = "LBRACE" THEN Boxed("Match", Branch_Expect(q))
    ELSE IF q.Token.Kind.tag = "LPAREN"
         THEN Boxed("ListRule", ListRule_Expect(q))
    ELSE Err(q, UnexpectedTokenError(TokenKind("None"), q.Token))

\* Def::Expect
Def_Expect(q) == Def_Expect_AfterName(GetPos(q.Scanner), Ident_Expect(q))

Def_Expect_AfterName(begin, name) ==
    IF name.res # "Ok" THEN name
    ELSE Def_Expect_AfterDEFINE(begin, name.val,
                                MatchAndScan(name.s, TokenKind("DEFINE"),
                                             <<"Def">>))

Def_Expect_AfterDEFINE(begin, name, m) ==
    IF m.res # "Ok" THEN m
    ELSE Def_Expect_AfterRule(begin, name,
                              List_Expect(m.s, "Node", TokenKind("COMMA"),
                                          TokenKind("SEMICOLON")))

Def_Expect_AfterRule(begin, name, rule) ==
    IF rule.res # "Ok" THEN rule
    ELSE Ok(rule.s, [node |-> "Def",
                     Name |-> name,
                     Rule |-> rule.val,
                     Pos |-> range(begin, rule.s.Scanner)])

\* File::Expect
File_Expect(q) ==
    File_Expect_AfterDefinitions(GetPos(q.Scanner),
                                 List_Expect(q, "Def", TokenKind("SEMICOLON"),
                                             TokenKind("EOF")))

File_Expect_AfterDefinitions(begin, definitions) ==
    IF definitions.res # "Ok" THEN definitions
    ELSE Ok(definitions.s, [node |-> "File",
                            Definitions |-> definitions.val,
                            Pos |-> range(begin, definitions.s.Scanner)])

\* AstNodeParserTrait::Expect of the type named T.
Expect(T, q) ==
    CASE T = "Ident" -> Ident_Expect(q)
      [] T = "Field" -> Field_Expect(q)
      [] T = "Pattern" -> Pattern_Expect(q)
      [] T = "Branch" -> Branch_Expect(q)
      [] T = "ListRule" -> ListRule_Expect(q)
      [] T = "Node" -> Node_Expect(q)
      [] T = "Def" -> Def_Expect(q)
      [] T = "File" -> File_Expect(q)

(***************************************************************************)
(* Inputs                                                                  *)
(***************************************************************************)

\* Lexemes of the inputs, as code point sequences: single letters, the
\* identifiers of the end-to-end example, punctuation, `=>`, `:=`, integer
\* literals (0x1f, 0o17, 0b10, 42), the string "s", the malformed 0z, the
\* unterminated "abc, the bad escape "\q", the truncated escape "\x4,
\* `//c` with its newline, `/*c*/`, BEL, e-acute and superscript two; the
\* string literals
\* "\n\t\r\\\"", "\xFF\u00E9\U0001F600", 'a\'"', '\"', "\uD800",
\* "\U00110000" and "\xg1".
W ==
    [a |-> <<97>>,
     b |-> <<98>>,
     c |-> <<99>>,
     d |-> <<100>>,
     x |-> <<120>>,
     y |-> <<121>>,
     z |-> <<122>>,
     Rule |-> <<82, 117, 108, 101>>,
     name |-> <<110, 97, 109, 101>>,
     Ident |-> <<73, 100, 101, 110, 116>>,
     body |-> <<98, 111, 100, 121>>,
     Block |-> <<66, 108, 111, 99, 107>>,
     sp |-> <<32>>,
     nl |-> <<10>>,
     semi |-> <<59>>,
     comma |-> <<44>>,
     lbrace |-> <<123>>,
     rbrace |-> <<125>>,
     lparen |-> <<40>>,
     rparen |-> <<41>>,
     lbrack |-> <<91>>,
     rbrack |-> <<93>>,
     arrow |-> <<61, 62>>,
     define |-> <<58, 61>>,
     dollar |-> <<36>>,
     colon |-> <<58>>,
     dot |-> <<46>>,
     plus |-> <<43>>,
     slash |-> <<47>>,
     one |-> <<49>>,
     zero |-> <<48>>,
     hex |-> <<48, 120, 49, 102>>,
     oct |-> <<48, 111, 49, 55>>,
     bin |-> <<48, 98, 49, 48>>,
     dec |-> <<52, 50>>,
     str |-> <<34, 115, 34>>,
     badnum |-> <<48, 122>>,
     openstr |-> <<34, 97, 98, 99>>,
     badesc |-> <<34, 92, 113, 34>>,
     cutesc |-> <<34, 92, 120, 52>>,
     linecomment |-> <<47, 47, 99, 10>>,
     blockcomment |-> <<47, 42, 99, 42, 47>>,
     escapes |-> <<34, 92, 110, 92, 116, 92, 114, 92, 92, 92, 34, 34>>,
     hexescapes |-> <<34, 92, 120, 70, 70, 92, 117, 48, 48, 69, 57,
                      92, 85, 48, 48, 48, 49, 70, 54, 48, 48, 34>>,
     squoted |-> <<39, 97, 92, 39, 34, 39>>,
     otherquote |-> <<39, 92, 34, 39>>,
     surrogate |-> <<34, 92, 117, 68, 56, 48, 48, 34>>,
     toolarge |-> <<34, 92, 85, 48, 48, 49, 49, 48, 48, 48, 48, 34>>,
     nothex |-> <<34, 92, 120, 103, 49, 34>>,
     bel |-> <<7>>,
     eacute |-> <<233>>,
     superscript2 |-> <<178>>]

RECURSIVE Cat(_)
\* The buffer made of the lexemes ws, in order.
Cat(ws) ==
    IF Len(ws) = 0 THEN <<>>
    ELSE IF Len(ws) = 1 THEN ws[1]
    ELSE Cat(SubSeq(ws, 1, Len(ws) \div 2))
         \o Cat(SubSeq(ws, Len(ws) \div 2 + 1, Len(ws)))

\* All sequences of at most n elements of S.
SeqsUpTo(S, n) == UNION {[1..k -> S] : k \in 0..n}

\* The inputs that differ from the lexeme sequence ws in one place: one
\* lexeme dropped, or replaced by one of S.
OneEdit(ws, S) ==
    {[i \in 1..(Len(ws) - 1) |-> IF i < k THEN ws[i] ELSE ws[i + 1]] :
        k \in 1..Len(ws)}
    \cup {[ws EXCEPT ![k] = w] : k \in 1..Len(ws), w \in S}

\* `a ; b ; c ;`
ExList == <<W.a, W.sp, W.semi, W.sp, W.b, W.sp, W.semi, W.sp, W.c, W.sp, W.semi>>

\* `{ a => x, y; b => z; }`
ExBranch ==
    <<W.lbrace, W.sp, W.a, W.sp, W.arrow, W.sp, W.x, W.comma, W.sp, W.y,
      W.semi, W.sp, W.b, W.sp, W.arrow, W.sp, W.z, W.semi, W.sp, W.rbrace>>

\* `Rule := $name: Ident, $body: Block;`
ExRule ==
    <<W.Rule, W.sp, W.define, W.sp, W.dollar, W.name, W.colon, W.sp, W.Ident,
      W.comma, W.sp, W.dollar, W.body, W.colon, W.sp, W.Block, W.semi>>

\* `Rule := 0z;`
ExBadNum == <<W.Rule, W.sp, W.define, W.sp, W.badnum, W.semi>>

\* `a := b; "abc`
ExOpenStr == <<W.a, W.sp, W.define, W.sp, W.b, W.semi, W.sp, W.openstr>>

\* Two definitions ended by line breaks:
\*   a := b
\*   c := d
ExLines ==
    <<W.a, W.sp, W.define, W.sp, W.b, W.nl, W.c, W.sp, W.define, W.sp, W.d, W.nl>>

\* `a := ($a: b, c, d), { x => y; };`
ExListRule ==
    <<W.a, W.sp, W.define, W.sp,
      W.lparen, W.dollar, W.a, W.colon, W.sp, W.b, W.comma, W.sp, W.c,
      W.comma, W.sp, W.d, W.rparen, W.comma, W.sp,
      W.lbrace, W.sp, W.x, W.sp, W.arrow, W.sp, W.y, W.semi, W.sp, W.rbrace,
      W.semi>>

\* `0x1f 42 ;`
ExInts == <<W.hex, W.sp, W.dec, W.sp, W.semi>>

\* `a := b; ` BEL ` c := d;`
ExControl ==
    <<W.a, W.sp, W.define, W.sp, W.b, W.semi, W.sp, W.bel, W.sp,
      W.c, W.sp, W.define, W.sp, W.d, W.semi>>

ParseExamples ==
    {ExList, ExBranch, ExRule, ExBadNum, ExOpenStr, ExLines, ExListRule,
     ExInts, ExControl}

\* The lexemes that the parser inputs are built from.
ParsePieces ==
    {W.a, W.semi, W.comma, W.lbrace, W.rbrace, W.lparen, W.rparen, W.arrow,
     W.define, W.dollar, W.colon, W.nl, W.sp, W.badnum, W.openstr, W.zero,
     W.slash}

\* Longest exhaustively enumerated parser input, in lexemes.
MaxParseLen == 2

\* Parser inputs: the examples, every input one edit away from an example,
\* and every sequence of at most MaxParseLen lexemes.
ParseInputs ==
    {Cat(ws) : ws \in ParseExamples
                      \cup UNION {OneEdit(e, ParsePieces) : e \in ParseExamples}
                      \cup SeqsUpTo(ParsePieces, MaxParseLen)}

\* `a`, newline, `b`
ExLineBreak == <<W.a, W.nl, W.b>>

\* `a + `, newline, ` b`
ExContinued == <<W.a, W.sp, W.plus, W.sp, W.nl, W.sp, W.b>>

\* Two blank lines, then `a `
ExBlankLines == <<W.nl, W.nl, W.a, W.sp>>

LexExamples == {ExLineBreak, ExContinued, ExBlankLines}

\* The lexemes that the grammar-aware scanner's inputs are built from.
LexPieces ==
    {W.a, W.one, W.rbrace, W.rparen, W.lbrace, W.comma, W.define, W.plus,
     W.str, W.semi, W.nl, W.sp, W.slash, W.badnum, W.openstr, W.bel,
     W.arrow, W.dollar, W.colon, W.dot}

\* Every lexeme, for inputs that probe one token kind each.
AllLexemes == {W[k] : k \in DOMAIN W}

\* Longest exhaustively enumerated scanner input, in lexemes.
MaxLexLen == 3

\* Scanner inputs: every sequence of at most MaxLexLen lexemes, every
\* lexeme followed by line breaks and another token, and the parser examples.
LexInputs ==
    {Cat(ws) : ws \in SeqsUpTo(LexPieces, MaxLexLen)
                      \cup {<<w, W.nl, W.nl, W.b, W.sp>> : w \in AllLexemes}
                      \cup {<<w, W.sp, W.nl, W.b, W.sp>> : w \in AllLexemes}
                      \cup LexExamples
                      \cup ParseExamples}

\* The characters that the integer-literal inputs are built from.
DigitChars ==
    {Ch.d0, Ch.d1, Ch.d9, Ch.x, Ch.o, Ch.b, Ch.f, Ch.z, Ch.semi, Ch.sp,
     Ch.nl}

\* Longest exhaustively enumerated raw-tokenizer input, in characters.
MaxRawLen == 4

\* The characters that the bodies of the string-literal inputs are built
\* from.
StringChars == {Ch.bslash, Ch.x, Ch.plus, Ch.f, Ch.n, Ch.q, Ch.dq}

\* Longest exhaustively enumerated string body, in characters.
MaxStringLen == 4

\* Raw tokenizer inputs.
RawInputs ==
    SeqsUpTo(DigitChars, MaxRawLen)
    \cup {<<Ch.dq>> \o body \o <<Ch.dq>> :
             body \in SeqsUpTo(StringChars, MaxStringLen)}
    \cup AllLexemes
    \cup {Cat(<<w, W.sp>>) : w \in AllLexemes}
    \cup {Cat(ws) : ws \in ParseExamples}

(***************************************************************************)
(* The programs: a driver holds one Parser and calls its methods.          *)
(***************************************************************************)

\* The record of the latest call: its name and arguments, the parser
\* before it, and its result.
Call(op, args, pre, r) ==
    [op |-> op, args |-> args, pre |-> pre,
     res |-> r.res, val |-> r.val, err |-> r.err]

InitWith(inputs) ==
    /\ p \in {NewParser(buffer) : buffer \in inputs}
    /\ last = Call("new", <<>>, p, Ok(p, "unit"))
    /\ pc = "new"

\* Where the driver stands after a call with result r.
After(r, next) ==
    IF r.res = "Panic" THEN "panicked"
    ELSE IF r.res = "Err" THEN "failed" ELSE next

\* p.Scan().unwrap() on a new parser: primes the lookahead
\* (TestParser_Expect, line 33).
Prime ==
    /\ pc = "new"
    /\ \E r \in {ScanBy(p, <<"caller">>)} :
       /\ p' = r.s
       /\ last' = Call("Scan", <<>>, p, r)
       /\ pc' = After(r, "primed")

ElementTypes == {"Ident", "Node", "Pattern", "Def"}

ListDelimiters == {TokenKind("COMMA"), TokenKind("SEMICOLON")}

ListTerminators == {TokenKind("SEMICOLON"), TokenKind("RBRACE"), TokenKind("EOF")}

Productions ==
    {"Ident", "Field", "Pattern", "Branch", "ListRule", "Node", "Def", "File"}

\* List::<T>::Expect(&mut p, delimiter, terminator) on a primed parser
\* (TestParser_Expect, line 35).
ExpectList ==
    /\ pc = "primed"
    /\ \E T \in ElementTypes, delimiter \in ListDelimiters,
          terminator \in ListTerminators :
          \E r \in {List_Expect(p, T, delimiter, terminator)} :
          /\ p' = r.s
          /\ last' = Call("List::Expect", <<T, delimiter, terminator>>, p, r)
          /\ pc' = After(r, "parsed")

\* T::Expect(&mut p) on a primed parser.
ExpectNode ==
    /\ pc = "primed"
    /\ \E T \in Productions :
          \E r \in {Expect(T, p)} :
          /\ p' = r.s
          /\ last' = Call("Expect", <<T>>, p, r)
          /\ pc' = After(r, "parsed")

\* The kinds a caller asks Match for: kinds without payload, and Int with
\* each of two formats.
MatchTerms ==
    {TokenKind("Ident"), TokenKind("SEMICOLON"), TokenKind("EOF"),
     [tag |-> "Int", format |-> "DEC"], [tag |-> "Int", format |-> "HEX"]}

\* p.Match(term) on a primed parser.
CallMatch ==
    /\ pc = "primed"
    /\ \E term \in MatchTerms :
          \E r \in {Match(p, term)} :
          /\ p' = r.s
          /\ last' = Call("Match", <<term>>, p, r)
          /\ pc' = After(r, "matched")

\* p.MatchAndScan(term) on a primed parser.
CallMatchAndScan ==
    /\ pc = "primed"
    /\ \E term \in MatchTerms :
          \E r \in {MatchAndScan(p, term, <<"caller">>)} :
          /\ p' = r.s
          /\ last' = Call("MatchAndScan", <<term>>, p, r)
          /\ pc' = After(r, "matched")

Init == InitWith(ParseInputs)

Next == Prime \/ ExpectList \/ ExpectNode \/ CallMatch \/ CallMatchAndScan

Spec == Init /\ [][Next]_vars

\* p.Scan() in a loop (TestParser_Lex, lines 17-24), continued past EOF
\* and past errors.  The history is left alone, so that scanning on at the
\* end of the input comes back to the same state.
LexScan ==
    /\ pc \in {"new", "lexing", "failed"}
    /\ \E r \in {Parser_Scan(p)} :
       /\ p' = r.s
       /\ last' = Call("Scan", <<>>, p, r)
       /\ pc' = After(r, "lexing")

InitLex == InitWith(LexInputs)

NextLex == LexScan

SpecLex == InitLex /\ [][NextLex]_vars

\* p.Scanner.Scan() in a loop, continued past errors.
RawScan ==
    /\ pc \in {"new", "raw", "failed"}
    /\ \E r \in {Scan(p.Scanner)} :
       /\ p' = [p EXCEPT !.Scanner = r.s]
       /\ last' = Call("BasicScanner::Scan", <<>>, p,
                       [r EXCEPT !.s = [p EXCEPT !.Scanner = r.s]])
       /\ pc' = After(r, "raw")

\* p.Scanner.Move(), called by a client any number of times.
RawMove ==
    /\ pc \in {"new", "moved", "raw", "failed"}
    /\ \E r \in {Move(p.Scanner)} :
       /\ p' = [p EXCEPT !.Scanner = r.s]
       /\ last' = Call("BasicScanner::Move", <<>>, p,
                       [r EXCEPT !.s = [p EXCEPT !.Scanner = r.s]])
       /\ pc' = After(r, "moved")

InitRaw == InitWith(RawInputs)

NextRaw == RawScan \/ RawMove

SpecRaw == InitRaw /\ [][NextRaw]_vars

\* The characters that the bodies of the block-comment inputs are built
\* from.
CommentChars == {Ch.star, Ch.slash, Ch.c}

\* Longest exhaustively enumerated block-comment body, in characters.
MaxCommentLen == 4

\* Block-comment inputs: `/*`, then a body.
CommentInputs ==
    {<<Ch.slash, Ch.star>> \o body : body \in SeqsUpTo(CommentChars, MaxCommentLen)}

\* p.Scanner.Move() over one of the two characters of the opener `/*`.
MoveOverOpener ==
    /\ pc \in {"new", "opening"}
    /\ \E r \in {Move(p.Scanner)} :
       /\ p' = [p EXCEPT !.Scanner = r.s]
       /\ last' = Call("Move", <<>>, p, [r EXCEPT !.s = [p EXCEPT !.Scanner = r.s]])
       /\ pc' = After(r, IF pc = "new" THEN "opening" ELSE "opened")

\* p.Scanner.ScanQuotedComment() with the cursor after the opener.
CallScanQuotedComment ==
    /\ pc = "opened"
    /\ \E r \in {ScanQuotedComment(p.Scanner)} :
       /\ p' = [p EXCEPT !.Scanner = r.s]
       /\ last' = Call("ScanQuotedComment", <<>>, p,
                       [r EXCEPT !.s = [p EXCEPT !.Scanner = r.s]])
       /\ pc' = After(r, "scanned")

InitComment == InitWith(CommentInputs)

NextComment == MoveOverOpener \/ CallScanQuotedComment

SpecComment == InitComment /\ [][NextComment]_vars

(***************************************************************************)
(* Properties                                                              *)
(***************************************************************************)

Buffer == p.Scanner.BufferScanner.Buffer

\* The history entries of the latest call.
OwnTrace == SubSeq(p.Trace, Len(last.pre.Trace) + 1, Len(p.Trace))

\* The history entries that consumed a token of kind tag.
Consumers(trace, tag) == {i \in 1..Len(trace) : trace[i].consumed = tag}

\* The identifier literal of a list element (an Ident, or a Node::Ident).
LiteralOf(e) ==
    IF e.node = "Node" THEN e.box.Token.Literal ELSE e.Token.Literal

\* C1: whenever List::Expect(delimiter, terminator) returns successfully,
\* the current token has the terminator's kind tag, and every scan a list
\* made consumed a token of that list's delimiter kind (so no list scanned
\* past its terminator).  For `a ; b ; c ;` with delimiter `;` and
\* terminator end-of-input the list returns the three elements a, b, c in
\* order, its last scan consumed a `;`, and end-of-input is current.
C1_ListStopsAtTerminator ==
    last.op = "List::Expect" =>
        /\ last.res = "Ok" =>
            /\ tag_matches(p.Token.Kind, last.args[3])
            /\ \A i \in 1..Len(OwnTrace) :
                  OwnTrace[i].by[1] = "List" =>
                      /\ OwnTrace[i].consumed = OwnTrace[i].by[3]
                      /\ OwnTrace[i].res = "Ok"
            /\ last.val.Delimiter = last.args[2]
            /\ last.val.Term = last.args[3]
        /\ ( /\ Buffer = Cat(ExList)
             /\ last.args[1] \in {"Ident", "Node"}
             /\ last.args[2] = TokenKind("SEMICOLON")
             /\ last.args[3] = TokenKind("EOF") ) =>
            /\ last.res = "Ok"
            /\ Len(last.val.Elements) = 3
            /\ [i \in 1..3 |-> LiteralOf(last.val.Elements[i])] = <<W.a, W.b, W.c>>
            /\ OwnTrace[Len(OwnTrace)].by[1] = "List"
            /\ OwnTrace[Len(OwnTrace)].consumed = "SEMICOLON"
            /\ OwnTrace[Len(OwnTrace)].got = "EOF"
            /\ p.Token.Kind.tag = "EOF"

\* C1 witness: List::<Ident>::Expect(`;`, end-of-input) has returned the
\* three elements of `a ; b ; c ;`.
C1_Witness ==
    /\ last.op = "List::Expect"
    /\ last.args = <<"Ident", TokenKind("SEMICOLON"), TokenKind("EOF")>>
    /\ Buffer = Cat(ExList)
    /\ last.res = "Ok"
    /\ Len(last.val.Elements) = 3

\* The Ahead literal and the body literals of each pattern of a Branch.
PatternsOf(branch) ==
    [i \in 1..Len(branch.Patterns.Elements) |->
        LET pat == branch.Patterns.Elements[i] IN
        <<pat.Ahead.Token.Literal,
          [j \in 1..Len(pat.Rule.Elements) |-> LiteralOf(pat.Rule.Elements[j])]>>]

\* C2: in every successful Branch::Expect, each `;` is consumed once, by a
\* pattern list as its delimiter (never by a body list), each `}` is
\* consumed once, by a Branch, and the Branch's own `}` is the last token
\* consumed.  For `{ a => x, y; b => z; }` the result is one Branch with
\* the patterns a => [x, y] and b => [z], in that order, two `;` and one
\* `}` consumed.
C2_NestedSharing ==
    (last.op = "Expect" /\ last.args = <<"Branch">>) =>
        /\ last.res = "Ok" =>
            /\ \A i \in Consumers(OwnTrace, "SEMICOLON") :
                  /\ OwnTrace[i].by = <<"List", "Pattern", "SEMICOLON", "RBRACE">>
                  /\ \A j \in Consumers(OwnTrace, "SEMICOLON") :
                        OwnTrace[j].at = OwnTrace[i].at => j = i
            /\ \A i \in Consumers(OwnTrace, "RBRACE") :
                  /\ OwnTrace[i].by = <<"Branch">>
                  /\ \A j \in Consumers(OwnTrace, "RBRACE") :
                        OwnTrace[j].at = OwnTrace[i].at => j = i
            /\ Len(OwnTrace) \in Consumers(OwnTrace, "RBRACE")
        /\ Buffer = Cat(ExBranch) =>
            /\ last.res = "Ok"
            /\ last.val.node = "Branch"
            /\ PatternsOf(last.val) = << <<W.a, <<W.x, W.y>> >>, <<W.b, <<W.z>> >> >>
            /\ Cardinality(Consumers(OwnTrace, "SEMICOLON")) = 2
            /\ Cardinality(Consumers(OwnTrace, "RBRACE")) = 1

\* C2 witness: Branch::Expect has returned the Branch of
\* `{ a => x, y; b => z; }`.
C2_Witness ==
    /\ last.op = "Expect"
    /\ last.args = <<"Branch">>
    /\ Buffer = Cat(ExBranch)
    /\ last.res = "Ok"
    /\ Len(last.val.Patterns.Elements) = 2

Cursor(q) == q.Scanner.BufferScanner.Pos.Offset

\* The characters of the buffer from offset from up to offset to.
Between(from, to) == {Buffer[k] : k \in (from + 1)..to}

\* The offset of the first character at or after off that is not
\* whitespace; the length of the buffer when there is none.
NextNonBlank(off) ==
    LET rest == {k \in off..(Len(Buffer) - 1) :
                    Buffer[k + 1] \notin {Ch.sp, Ch.tab, Ch.cr}}
    IN IF rest = {} THEN Len(Buffer)
       ELSE CHOOSE k \in rest : \A j \in rest : k <= j

\* The next raw token of the parser q is a newline.
NewlineNext(q) ==
    /\ NextNonBlank(Cursor(q)) < Len(Buffer)
    /\ Buffer[NextNonBlank(Cursor(q)) + 1] = Ch.nl

\* tok is a `;` that stands where the source has a newline.
Synthesized(tok) ==
    /\ tok.Kind.tag = "SEMICOLON"
    /\ tok.Pos.Begin.Offset < Len(Buffer)
    /\ Buffer[tok.Pos.Begin.Offset + 1] = Ch.nl

\* C3: when the next raw token is a newline, Parser::Scan returns a `;`
\* (literal `;`, positioned at the newline) exactly when the
\* pending-terminator flag was set, and clears the flag; with the flag
\* clear it returns no token at that newline: a token it returns lies
\* beyond the newline with only whitespace and newlines in between, and
\* the flag stays clear until a token is returned.  A
\* token standing at a newline is returned only with the flag set and only
\* for the first raw token of the scan.  The current token is never of
\* kind NEWLINE.
C3_TerminatorInsertion ==
    /\ p.Token.Kind.tag # "NEWLINE"
    /\ last.op = "Scan" =>
        LET pre == last.pre
            o == NextNonBlank(Cursor(pre))
        IN /\ NewlineNext(pre) =>
                IF pre.CompleteSemicolon
                THEN /\ last.res = "Ok"
                     /\ p.Token.Kind = TokenKind("SEMICOLON")
                     /\ p.Token.Literal = <<Ch.semi>>
                     /\ p.Token.Pos.Begin.Offset = o
                     /\ ~p.CompleteSemicolon
                     /\ Cursor(p) = o + 1
                ELSE /\ p.CompleteSemicolon = pre.CompleteSemicolon
                            \/ (last.res = "Ok" /\ p.Token.Kind.tag # "EOF")
                     /\ (last.res = "Ok" /\ p.Token.Kind.tag # "EOF") =>
                            /\ p.Token.Pos.Begin.Offset > o
                            /\ Between(o, p.Token.Pos.Begin.Offset)
                                   \subseteq {Ch.nl, Ch.sp, Ch.tab, Ch.cr}
           /\ (last.res = "Ok" /\ p.Token.Kind.tag # "EOF"
                 /\ Synthesized(p.Token)) =>
                /\ pre.CompleteSemicolon
                /\ p.Token.Pos.Begin.Offset = o
                /\ pre.Token.Kind.tag \notin {"None", "Operator"}

\* C3 witness: the second Scan of `a`, newline, `b` has returned the `;`
\* that stands for the newline.
C3_Witness ==
    /\ last.op = "Scan"
    /\ Buffer = Cat(ExLineBreak)
    /\ last.res = "Ok"
    /\ last.pre.CompleteSemicolon
    /\ Synthesized(p.Token)

\* C4: after every Parser::Scan that returns a token other than
\* end-of-input, the flag is set exactly when the token's kind is Ident,
\* Int, RBRACE or RPAREN; a synthesized `;` directly follows a token of
\* one of these kinds, which is not itself a synthesized `;` (so a run of
\* newlines gives at most one).
C4_PendingTerminatorFlag ==
    (last.op = "Scan" /\ last.res = "Ok" /\ p.Token.Kind.tag # "EOF") =>
        /\ p.CompleteSemicolon
              = (p.Token.Kind.tag \in {"Ident", "Int", "RBRACE", "RPAREN"})
        /\ Synthesized(p.Token) =>
              /\ last.pre.Token.Kind.tag \in {"Ident", "Int", "RBRACE", "RPAREN"}
              /\ ~Synthesized(last.pre.Token)
        /\ Synthesized(last.pre.Token) => ~Synthesized(p.Token)

\* C4 witness: after `)` and the `;` of the first of two newlines, the
\* third Scan has passed the second newline and returned an identifier.
C4_Witness ==
    /\ last.op = "Scan"
    /\ last.res = "Ok"
    /\ Synthesized(last.pre.Token)
    /\ Cursor(last.pre) < Len(Buffer)
    /\ Buffer[Cursor(last.pre) + 1] = Ch.nl
    /\ p.Token.Kind.tag = "Ident"
    /\ p.CompleteSemicolon

\* Nothing but whitespace, and newlines that will be discarded, is left
\* ahead of the parser q.
Exhausted(q) ==
    /\ Between(Cursor(q), Len(Buffer)) \subseteq {Ch.nl, Ch.sp, Ch.tab, Ch.cr}
    /\ Ch.nl \in Between(Cursor(q), Len(Buffer)) => ~q.CompleteSemicolon

\* C5: a Parser::Scan on exhausted input with a current token other than
\* end-of-input returns successfully with kind EOF; a Parser::Scan whose
\* current token is already EOF fails with the scanner's EndOfInput error
\* and changes nothing; so no Scan returns the EOF token a second time.
C5_EndOfInputOnce ==
    last.op = "Scan" =>
        /\ (last.pre.Token.Kind.tag # "EOF" /\ Exhausted(last.pre)) =>
              /\ last.res = "Ok"
              /\ p.Token.Kind.tag = "EOF"
        /\ last.pre.Token.Kind.tag = "EOF" =>
              /\ last.res = "Err"
              /\ last.err.type = "ScannerError"
              /\ last.err.err.kind = "EOF"
              /\ p = last.pre
        /\ (last.res = "Ok" /\ p.Token.Kind.tag = "EOF") =>
              last.pre.Token.Kind.tag # "EOF"

\* C5 witness: a Scan made after the EOF token was returned has failed.
C5_Witness ==
    /\ last.op = "Scan"
    /\ last.pre.Token.Kind.tag = "EOF"
    /\ last.res = "Err"

\* A comment starts at the next raw token of the parser q: `//` with its
\* closing newline, or `/*` with its closing `*/`.
CommentNext(q) ==
    LET o == NextNonBlank(Cursor(q)) IN
    /\ o + 2 <= Len(Buffer)
    /\ Buffer[o + 1] = Ch.slash
    /\ \/ /\ Buffer[o + 2] = Ch.slash
          /\ \E k \in (o + 3)..Len(Buffer) : Buffer[k] = Ch.nl
       \/ /\ Buffer[o + 2] = Ch.star
          /\ \E k \in (o + 3)..(Len(Buffer) - 1) :
                Buffer[k] = Ch.star /\ Buffer[k + 1] = Ch.slash

\* C6: a Parser::Scan that meets a comment does not fail or panic because
\* of it, and hands no part of the comment to the parser: the current token
\* is never a Comment, and a token it returns begins after the comment's
\* two opening characters.
C6_CommentsTransparent ==
    /\ p.Token.Kind.tag # "Comment"
    /\ (last.op = "Scan" /\ CommentNext(last.pre)) =>
          /\ last.res # "Panic"
          /\ (last.res = "Ok" /\ p.Token.Kind.tag # "EOF") =>
                p.Token.Pos.Begin.Offset >= NextNonBlank(Cursor(last.pre)) + 2

\* C7: every delimiter character Parser::new configures is a key of the
\* keyword table, and the expect() of Parser::Scan never panics.
C7_DelimitersAreKeywords ==
    /\ \A i \in 1..Len(p.Scanner.Delimiters) :
          HasKey(p.KeywordLookup, <<p.Scanner.Delimiters[i]>>)
    /\ pc # "panicked"

\* The offset of the first character at or after off that is neither
\* whitespace nor a newline; the length of the buffer when there is none.
NextInk(off) ==
    LET rest == {k \in off..(Len(Buffer) - 1) :
                    Buffer[k + 1] \notin {Ch.nl, Ch.sp, Ch.tab, Ch.cr}}
    IN IF rest = {} THEN Len(Buffer)
       ELSE CHOOSE k \in rest : \A j \in rest : k <= j

\* The scan of history entry e failed in the raw tokenizer with BadFormat.
BadFormatScan(e) ==
    /\ e.res = "Err"
    /\ e.err.type = "ScannerError"
    /\ e.err.err.kind = "BadFormat"

\* The scan of history entry e ran off the end of the buffer inside a
\* token that a quote or a `0` had opened, and came back with the
\* end-of-input token.
MidTokenEOF(e) ==
    /\ e.res = "Ok"
    /\ e.got = "EOF"
    /\ e.consumed # "EOF"
    /\ e.to = Len(Buffer)
    /\ NextInk(e.from) < Len(Buffer)
    /\ Buffer[NextInk(e.from) + 1] \in {Ch.dq, Ch.sq, Ch.d0}

\* The latest call is the top-level parse: File::Expect, or the File
\* production's list.
TopLevelParse ==
    \/ last.op = "Expect" /\ last.args = <<"File">>
    \/ /\ last.op = "List::Expect"
       /\ last.args = <<"Def", TokenKind("SEMICOLON"), TokenKind("EOF")>>

\* C8: if the raw tokenizer fails while the top-level parse runs, with
\* BadFormat or with EndOfInput in the middle of a token, the parse returns
\* that scanner error and no AST.
C8_ScanFailureAborts ==
    TopLevelParse =>
        \A i \in 1..Len(OwnTrace) :
            /\ BadFormatScan(OwnTrace[i]) =>
                  last.res = "Err" /\ last.err = OwnTrace[i].err
            /\ MidTokenEOF(OwnTrace[i]) =>
                  /\ last.res = "Err"
                  /\ last.err.type = "ScannerError"
                  /\ last.err.err.kind = "EOF"

\* The base of the valid integer literal that starts at offset o, "none"
\* when none does: a decimal run that does not start with 0, or 0x, 0o, 0b
\* with a digit of the base.
LiteralBase(o) ==
    LET at(k) == IF o + k <= Len(Buffer) THEN Buffer[o + k] ELSE -1 IN
    IF Ch.d1 <= at(1) /\ at(1) <= Ch.d9 THEN "DEC"
    ELSE IF at(1) # Ch.d0 THEN "none"
    ELSE IF at(2) = Ch.x /\ ((Ch.d0 <= at(3) /\ at(3) <= Ch.d9)
                              \/ (Ch.a <= at(3) /\ at(3) <= Ch.f)) THEN "HEX"
    ELSE IF at(2) = Ch.o /\ Ch.d0 <= at(3) /\ at(3) <= Ch.d7 THEN "OCT"
    ELSE IF at(2) = Ch.b /\ at(3) \in {Ch.d0, Ch.d1} THEN "BIN"
    ELSE "none"

\* C9: a raw scan that starts at a valid integer literal, wherever it is
\* in the buffer, returns an Int token with the literal's base whose literal
\* is the source from the first character of the literal to the cursor.
C9_IntegerLiterals ==
    last.op = "BasicScanner::Scan" =>
        LET o == NextNonBlank(Cursor(last.pre)) IN
        LiteralBase(o) # "none" =>
            /\ last.res = "Ok"
            /\ last.val.Kind = [tag |-> "Int", format |-> LiteralBase(o)]
            /\ last.val.Literal = SubSeq(Buffer, o + 1, Cursor(p))

\* A token that starts with `0` followed by a character other than x, o,
\* b begins at offset o.
MalformedPrefixAt(o) ==
    /\ o + 2 <= Len(Buffer)
    /\ Buffer[o + 1] = Ch.d0
    /\ Buffer[o + 2] \notin {Ch.x, Ch.o, Ch.b}

\* The outcome of parsing `Rule := 0z;`: every production that reaches the
\* `0z` fails with the BadFormat error of the scan.
BadNumParseAborts ==
    ( /\ Buffer = Cat(ExBadNum)
      /\ \/ last.op = "Expect" /\ last.args[1] \in {"File", "Def"}
         \/ last.op = "List::Expect" /\ last.args[1] = "Def" ) =>
        /\ last.res = "Err"
        /\ BadFormatScan(OwnTrace[Len(OwnTrace)])
        /\ last.err = OwnTrace[Len(OwnTrace)].err

\* C10 as stated: every scan that starts at a `0` followed by a character
\* other than x, o, b fails with BadFormat, reported at the position of
\* that second character, and the parse of `Rule := 0z;` aborts with it.
C10_MalformedPrefix ==
    /\ \A i \in 1..Len(p.Trace) :
          LET e == p.Trace[i] IN
          MalformedPrefixAt(NextNonBlank(e.from)) =>
              /\ BadFormatScan(e)
              /\ e.err.err.PosRange.Begin.Offset = NextNonBlank(e.from) + 1
    /\ BadNumParseAborts

\* C10 as amended: every scan that starts at a `0` followed by a character
\* other than x, o, b fails with BadFormat; the error's range begins at
\* the `0` and ends just after the second character; the parse of
\* `Rule := 0z;` aborts with that error, whose range is offsets 8 to 10.
C10_MalformedPrefixRange ==
    /\ \A i \in 1..Len(p.Trace) :
          LET e == p.Trace[i] IN
          MalformedPrefixAt(NextNonBlank(e.from)) =>
              /\ BadFormatScan(e)
              /\ e.err.err.PosRange.Begin.Offset = NextNonBlank(e.from)
              /\ e.err.err.PosRange.End.Offset = NextNonBlank(e.from) + 2
              /\ e.to = NextNonBlank(e.from) + 2
    /\ BadNumParseAborts
    /\ (Buffer = Cat(ExBadNum) /\ last.op = "Expect" /\ last.args = <<"File">>) =>
          last.err = ScannerError(BadFormatError(
                        [Offset |-> 8, Line |-> 0, Column |-> 8],
                        [Offset |-> 10, Line |-> 0, Column |-> 10]))

\* C10 witness: File::Expect on `Rule := 0z;` has failed with the scanner's
\* BadFormat error.
C10_Witness ==
    /\ last.op = "Expect"
    /\ last.args = <<"File">>
    /\ Buffer = Cat(ExBadNum)
    /\ last.res = "Err"
    /\ last.err.type = "ScannerError"
    /\ last.err.err.kind = "BadFormat"
\* A quoted literal starts at offset o of the buffer.
QuoteAt(o) == o < Len(Buffer) /\ Buffer[o + 1] \in {Ch.dq, Ch.sq}

\* What was read of a quoted literal: closed (with the decoded characters
\* and the offset after the closing quote), bad (an escape that is not
\* allowed) or open (the buffer ended first).
Reading(kind, literal, end) == [kind |-> kind, literal |-> literal, end |-> end]

RECURSIVE Decoded(_, _, _)
\* The reading of the literal with the given quote character whose body
\* continues at offset i, acc being the characters decoded so far: \n, \t,
\* \r, \\ and the escaped quote stand for one character each, \x, \u, \U
\* with 2, 4, 8 hexadecimal digits for the character with that code point,
\* every other character for itself.
Decoded(i, quote, acc) ==
    LET at(k) == IF i + k <= Len(Buffer) THEN Buffer[i + k] ELSE -1
        width == IF at(2) = Ch.x THEN 2 ELSE IF at(2) = Ch.u THEN 4 ELSE 8
        digits == SubSeq(Buffer, i + 3, i + 2 + width)
    IN
    IF at(1) = -1 THEN Reading("open", acc, i)
    ELSE IF at(1) = quote THEN Reading("closed", acc, i + 1)
    ELSE IF at(1) # Ch.bslash THEN Decoded(i + 1, quote, Append(acc, at(1)))
    ELSE IF at(2) = -1 THEN Reading("open", acc, i)
    ELSE IF at(2) = Ch.n THEN Decoded(i + 2, quote, Append(acc, Ch.nl))
    ELSE IF at(2) = Ch.t THEN Decoded(i + 2, quote, Append(acc, Ch.tab))
    ELSE IF at(2) = Ch.r THEN Decoded(i + 2, quote, Append(acc, Ch.cr))
    ELSE IF at(2) = Ch.bslash THEN Decoded(i + 2, quote, Append(acc, Ch.bslash))
    ELSE IF at(2) = quote THEN Decoded(i + 2, quote, Append(acc, quote))
    ELSE IF at(2) \notin {Ch.x, Ch.u, Ch.U} THEN Reading("bad", acc, i)
    ELSE IF i + 2 + width > Len(Buffer) THEN Reading("open", acc, i)
    ELSE IF \E k \in 1..width : HexDigit(digits[k]) < 0 THEN Reading("bad", acc, i)
    ELSE IF ~from_u32_is_some(HexValue(digits, 0)) THEN Reading("bad", acc, i)
    ELSE Decoded(i + 2 + width, quote, Append(acc, HexValue(digits, 0)))

\* C11: a raw scan that starts at a quoted literal returns a String token
\* whose literal is the decoded character sequence of the literal's body;
\* when the body has an escape letter that is not allowed, digits that are
\* not hexadecimal, or a code point that is not a character, the scan
\* fails with BadFormat.
C11_StringEscapes ==
    (last.op = "BasicScanner::Scan"
       /\ QuoteAt(NextNonBlank(Cursor(last.pre)))) =>
        LET o == NextNonBlank(Cursor(last.pre))
            d == Decoded(o + 1, Buffer[o + 1], <<>>)
        IN /\ d.kind = "closed" =>
                /\ last.res = "Ok"
                /\ last.val.Kind = BasicKind("String")
                /\ last.val.Literal = d.literal
                /\ Cursor(p) = d.end
           /\ d.kind = "bad" =>
                /\ last.res = "Err"
                /\ last.err.kind = "BadFormat"
RECURSIVE Unclosed(_, _)
\* The buffer ends before an unescaped quote character closes the literal
\* whose body continues at offset i (a backslash escapes the character
\* after it).
Unclosed(i, quote) ==
    IF i >= Len(Buffer) THEN TRUE
    ELSE IF Buffer[i + 1] = quote THEN FALSE
    ELSE IF Buffer[i + 1] = Ch.bslash THEN Unclosed(i + 2, quote)
    ELSE Unclosed(i + 1, quote)

\* The latest call is a raw scan that starts at a quote character whose
\* literal the buffer does not close.
UnterminatedScan ==
    /\ last.op = "BasicScanner::Scan"
    /\ QuoteAt(NextNonBlank(Cursor(last.pre)))
    /\ Unclosed(NextNonBlank(Cursor(last.pre)) + 1,
                Buffer[NextNonBlank(Cursor(last.pre)) + 1])

\* C12 as stated: a raw scan that starts at a quote character, the buffer
\* ending before the matching unescaped closing quote, fails with
\* EndOfInput.
C12_UnterminatedString ==
    UnterminatedScan => last.res = "Err" /\ last.err.kind = "EOF"

\* C12 as amended: such a scan returns no String token; it fails with
\* EndOfInput when every escape before the end of the buffer is a valid
\* one, and with EndOfInput or BadFormat when one of them is not (BadFormat
\* only in that case).  `"abc` fails with EndOfInput.
C12_UnterminatedStringFails ==
    UnterminatedScan =>
        LET o == NextNonBlank(Cursor(last.pre))
            d == Decoded(o + 1, Buffer[o + 1], <<>>)
        IN /\ last.res = "Err"
           /\ last.err.kind \in {"EOF", "BadFormat"}
           /\ d.kind = "open" => last.err.kind = "EOF"
           /\ last.err.kind = "BadFormat" => d.kind = "bad"
           /\ last.err.kind = "EOF" => Cursor(p) = Len(Buffer)
           /\ Buffer = W.openstr => last.err.kind = "EOF"

\* C12 witness: the raw scan of `"abc` has failed with EndOfInput at the
\* end of the buffer.
C12_Witness ==
    /\ UnterminatedScan
    /\ Buffer = W.openstr
    /\ Cursor(last.pre) = 0
    /\ last.res = "Err"
    /\ last.err.kind = "EOF"
    /\ Cursor(p) = Len(Buffer)
\* The latest call is List::<Def>::Expect(`;`, end-of-input) on the primed
\* parser of `Rule := $name: Ident, $body: Block;`.
EndToEndParse ==
    /\ last.op = "List::Expect"
    /\ last.args = <<"Def", TokenKind("SEMICOLON"), TokenKind("EOF")>>
    /\ Buffer = Cat(ExRule)

\* The Name and Rule literals of a Node::Field; <<>> for any other node.
FieldOf(e) ==
    IF e.node = "Node" /\ e.variant = "Field" /\ e.box.node = "Field"
    THEN <<e.box.Name.Token.Literal, e.box.Rule.Token.Literal>>
    ELSE <<>>

\* C13: after one priming Scan, List::<Def>::Expect(`;`, end-of-input) on
\* `Rule := $name: Ident, $body: Block;` succeeds with exactly one Def
\* named Rule whose rule list has exactly two elements, the Node::Field
\* (name, Ident) and then the Node::Field (body, Block); end-of-input is the
\* current token on return.
C13_EndToEnd ==
    EndToEndParse =>
        /\ last.res = "Ok"
        /\ last.pre.Trace[1].by = <<"caller">>
        /\ Len(last.pre.Trace) = 1
        /\ Len(last.val.Elements) = 1
        /\ last.val.Elements[1].node = "Def"
        /\ last.val.Elements[1].Name.Token.Literal = W.Rule
        /\ Len(last.val.Elements[1].Rule.Elements) = 2
        /\ FieldOf(last.val.Elements[1].Rule.Elements[1]) = <<W.name, W.Ident>>
        /\ FieldOf(last.val.Elements[1].Rule.Elements[2]) = <<W.body, W.Block>>
        /\ p.Token.Kind = TokenKind("EOF")

\* C13 witness: the parse of the example has returned its one Def.
C13_Witness ==
    /\ EndToEndParse
    /\ last.res = "Ok"
    /\ Len(last.val.Elements) = 1
    /\ Cursor(p) = Len(Buffer)
\* C14: Match(kind) succeeds exactly when the current token's kind tag is
\* the tag of `kind`, whatever the payloads (Int(HEX) matches Int(DEC));
\* otherwise it fails with UnexpectedToken{Want: kind, Have: the current
\* token}.  Either way the parser (cursor, current token, pending-terminator
\* flag) is as it was.  MatchAndScan(kind) fails in the same way without a
\* scan when the tags differ, and makes exactly one scan when they agree.
C14_MatchFrame ==
    /\ last.op = "Match" =>
          /\ p = last.pre
          /\ last.res = IF last.pre.Token.Kind.tag = last.args[1].tag
                        THEN "Ok" ELSE "Err"
          /\ last.res = "Err" =>
                last.err = UnexpectedTokenError(last.args[1], last.pre.Token)
    /\ last.op = "MatchAndScan" =>
          IF last.pre.Token.Kind.tag = last.args[1].tag
          THEN /\ Len(OwnTrace) = 1
               /\ OwnTrace[1].consumed = last.args[1].tag
          ELSE /\ p = last.pre
               /\ last.res = "Err"
               /\ last.err = UnexpectedTokenError(last.args[1], last.pre.Token)

\* C14 witness: with the hexadecimal literal of `0x1f 42 ;` current,
\* Match(Int(DEC)) has succeeded.
C14_Witness ==
    /\ last.op = "Match"
    /\ last.args = << [tag |-> "Int", format |-> "DEC"] >>
    /\ last.pre.Token.Kind = [tag |-> "Int", format |-> "HEX"]
    /\ last.res = "Ok"
    /\ p = last.pre
\* The latest call is a production that records a range of its own (Field,
\* Pattern, Branch, ListRule, Def, File or a List), it has returned a node
\* and it has consumed at least one token.
RangedNodeBuilt ==
    /\ \/ /\ last.op = "Expect"
          /\ last.args[1] \in {"Field", "Pattern", "Branch", "ListRule",
                               "Def", "File"}
       \/ last.op = "List::Expect"
    /\ last.res = "Ok"
    /\ OwnTrace # <<>>

\* C15: the range of the node a production returns begins at the start of
\* the first token the production consumed and ends at the cursor position
\* just after the last token it consumed (where the cursor stood when that
\* token had been scanned).
C15_ProductionRanges ==
    RangedNodeBuilt =>
        /\ last.val.Pos.Begin.Offset = OwnTrace[1].at
        /\ last.val.Pos.End.Offset = OwnTrace[Len(OwnTrace)].from
\* The kinds of the single-character delimiter tokens.
DelimiterKinds ==
    {"LPAREN", "RPAREN", "LBRACK", "RBRACK", "LBRACE", "RBRACE", "COMMA",
     "SEMICOLON"}

\* C16: the token a successful Parser::Scan returns has a range with
\* Begin <= End that spans the characters consumed for it: it ends at the
\* cursor, it begins at a character of the token, and only whitespace and
\* discarded newlines lie between the cursor before the scan and its
\* beginning; the range of a single-character delimiter token is one
\* character wide.  The end-of-input token has neither the range nor the
\* literal of the token that was current before it.
C16_TokenRanges ==
    (last.op = "Scan" /\ last.res = "Ok") =>
        IF p.Token.Kind.tag = "EOF"
        THEN last.pre.Token.Kind.tag # "None" =>
                /\ p.Token.Pos # last.pre.Token.Pos
                /\ p.Token.Literal # last.pre.Token.Literal
        ELSE /\ p.Token.Pos.Begin.Offset <= p.Token.Pos.End.Offset
             /\ p.Token.Pos.End.Offset = Cursor(p)
             /\ p.Token.Pos.Begin.Offset >= Cursor(last.pre)
             /\ Between(Cursor(last.pre), p.Token.Pos.Begin.Offset)
                    \subseteq {Ch.nl, Ch.sp, Ch.tab, Ch.cr}
             /\ p.Token.Kind.tag \in DelimiterKinds =>
                    p.Token.Pos.End.Offset = p.Token.Pos.Begin.Offset + 1
\* The characters of the buffer from offset o to its end are one run: an
\* identifier (a letter or `_`, then letters, digits, `_`), a decimal
\* integer that does not start with 0, or operator characters
\* (punctuation other than the delimiters and the quotes).
RunToEnd(o) ==
    LET run == {Buffer[k] : k \in (o + 1)..Len(Buffer)} IN
    /\ o < Len(Buffer)
    /\ \/ /\ is_ascii_alphabetic(Buffer[o + 1]) \/ Buffer[o + 1] = Ch.us
          /\ \A ch \in run : \/ is_ascii_alphabetic(ch)
                             \/ (Ch.d0 <= ch /\ ch <= Ch.d9)
                             \/ ch = Ch.us
       \/ /\ Ch.d1 <= Buffer[o + 1] /\ Buffer[o + 1] <= Ch.d9
          /\ \A ch \in run : Ch.d0 <= ch /\ ch <= Ch.d9
       \/ \A ch \in run : /\ is_ascii_punctuation(ch)
                          /\ ch \notin {Ch.dq, Ch.sq, Ch.us}
                          /\ ~contains(Delimiters, ch)

\* C17: a Parser::Scan that starts at an identifier, integer or operator
\* run reaching to the last character of the buffer returns a token, not
\* end-of-input, whose literal is the whole run, and leaves the cursor at
\* the end of the buffer.
C17_RunAtEndOfBuffer ==
    (last.op = "Scan" /\ last.pre.Token.Kind.tag # "EOF"
       /\ RunToEnd(NextNonBlank(Cursor(last.pre)))) =>
        /\ last.res = "Ok"
        /\ p.Token.Kind.tag # "EOF"
        /\ p.Token.Literal =
              SubSeq(Buffer, NextNonBlank(Cursor(last.pre)) + 1, Len(Buffer))
        /\ Cursor(p) = Len(Buffer)
\* C18: every successful Parser::Scan that returns a token other than
\* end-of-input leaves the cursor at a greater offset than it found it, so
\* that scanning until EOF or an error ends after at most Len(Buffer) + 1
\* calls.
C18_ScanAdvances ==
    (last.op = "Scan" /\ last.res = "Ok" /\ p.Token.Kind.tag # "EOF") =>
        Cursor(p) > Cursor(last.pre)
\* C19: a Parser::Scan returns the end-of-input token only with the cursor
\* at the end of the buffer, and a top-level parse that succeeds has read
\* the buffer to its end: a character the raw tokenizer cannot classify
\* does not make the rest of the input pass for end-of-input.
C19_EndOfInputAtEndOfBuffer ==
    /\ \A i \in 1..Len(p.Trace) :
          (p.Trace[i].res = "Ok" /\ p.Trace[i].got = "EOF") =>
              p.Trace[i].to = Len(Buffer)
    /\ (TopLevelParse /\ last.res = "Ok") => Cursor(p) = Len(Buffer)
\* The offsets at or after off where the two characters `*/` stand.
Closers(off) ==
    {k \in off..(Len(Buffer) - 2) :
        Buffer[k + 1] = Ch.star /\ Buffer[k + 2] = Ch.slash}

\* C20: ScanQuotedComment, called after `/*`, returns with the cursor just
\* after the first `*/` of the remaining input, wherever it stands (also
\* after another `*`), and fails with EndOfInput only when the remaining
\* input has no `*/`.
C20_BlockCommentCloses ==
    last.op = "ScanQuotedComment" =>
        IF Closers(Cursor(last.pre)) = {}
        THEN last.res = "Err" /\ last.err.kind = "EOF"
        ELSE /\ last.res = "Ok"
             /\ last.val.Kind = BasicKind("Comment")
             /\ \A k \in Closers(Cursor(last.pre)) : Cursor(p) <= k + 2
             /\ Cursor(p) - 2 \in Closers(Cursor(last.pre))
\* ch is a character an operator run is made of: ASCII punctuation that is
\* neither a quote nor a configured delimiter.
OperatorChar(ch) ==
    /\ is_ascii_punctuation(ch)
    /\ ch \notin {Ch.dq, Ch.sq}
    /\ ~contains(Delimiters, ch)

\* The offset at which the maximal run of operator characters that starts
\* at offset o ends.
RunEnd(o) ==
    LET stops == {k \in o..(Len(Buffer) - 1) : ~OperatorChar(Buffer[k + 1])}
    IN IF stops = {} THEN Len(Buffer)
       ELSE CHOOSE k \in stops : \A j \in stops : k <= j

\* The kind the keyword table gives an operator literal.
ReservedKind(literal) ==
    IF literal = <<Ch.colon, Ch.eq>> THEN TokenKind("DEFINE")
    ELSE IF literal = <<Ch.eq, Ch.gt>> THEN TokenKind("ARROW")
    ELSE IF literal = <<Ch.dollar>> THEN TokenKind("FIELD")
    ELSE IF literal = <<Ch.colon>> THEN TokenKind("COLON")
    ELSE IF literal = <<Ch.dot>> THEN TokenKind("DOT")
    ELSE TokenKind("Operator")

\* The latest call is a Parser::Scan, made with a token other than
\* end-of-input current, whose raw scan starts at an operator character
\* (one that BasicScanner::Scan hands to ScanOperator).
OperatorScan ==
    /\ last.op = "Scan"
    /\ last.pre.Token.Kind.tag # "EOF"
    /\ NextNonBlank(Cursor(last.pre)) < Len(Buffer)
    /\ OperatorChar(Buffer[NextNonBlank(Cursor(last.pre)) + 1])
    /\ Buffer[NextNonBlank(Cursor(last.pre)) + 1] # Ch.us

\* C21: a scan that starts at an operator character returns a token whose
\* literal is the maximal run of operator characters from there, with the
\* cursor left at the end of the run; its kind is DEFINE, ARROW, FIELD,
\* COLON or DOT when the literal is exactly `:=`, `=>`, `$`, `:` or `.`,
\* and Operator for every other literal.
C21_OperatorRun ==
    OperatorScan =>
        LET o == NextNonBlank(Cursor(last.pre)) IN
        /\ last.res = "Ok"
        /\ p.Token.Literal = SubSeq(Buffer, o + 1, RunEnd(o))
        /\ p.Token.Kind = ReservedKind(p.Token.Literal)
        /\ Cursor(p) = RunEnd(o)
\* A `$` stands at index k of the buffer buf directly after a reserved
\* operator (`:=`, `=>` or `:`) that is a whole operator run.
TightField(buf, k) ==
    LET at(j) == IF 1 <= j /\ j <= Len(buf) THEN buf[j] ELSE -1
        free(j) == at(j) = -1 \/ ~OperatorChar(at(j))
    IN /\ at(k) = Ch.dollar
       /\ \/ at(k - 2) = Ch.colon /\ at(k - 1) = Ch.eq /\ free(k - 3)
          \/ at(k - 2) = Ch.eq /\ at(k - 1) = Ch.gt /\ free(k - 3)
          \/ at(k - 1) = Ch.colon /\ free(k - 2)

\* The buffer buf with a space inserted before every such `$`.
Spaced(buf) ==
    Cat([k \in 1..Len(buf) |->
            IF TightField(buf, k) THEN <<Ch.sp, buf[k]>> ELSE <<buf[k]>>])

\* The kinds of the tokens that the scans of a history returned.
KindsOf(trace) == [i \in 1..Len(trace) |-> trace[i].got]

\* The production of the latest call, made on the primed parser of the
\* buffer with the spaces inserted.
SpacedParse == Expect(last.args[1], ScanBy(NewParser(Spaced(Buffer)), <<"caller">>).s)

\* C22: a production called on the primed parser of a buffer in which a
\* `$` directly follows a reserved operator has the same outcome, and has
\* scanned tokens of the same kinds, as on the buffer with a space inserted
\* between the two.
C22_SpaceBeforeFieldInsignificant ==
    (last.op = "Expect" /\ Spaced(Buffer) # Buffer) =>
        /\ last.res = SpacedParse.res
        /\ KindsOf(p.Trace) = KindsOf(SpacedParse.s.Trace)
\* The indices up to the cursor at which the buffer has a newline.
NewlinesBefore(off) == {k \in 1..off : Buffer[k] = Ch.nl}

\* The index of the last newline before the cursor; 0 when there is none.
LastNewline(off) ==
    IF NewlinesBefore(off) = {} THEN 0
    ELSE CHOOSE k \in NewlinesBefore(off) : \A j \in NewlinesBefore(off) : j <= k

\* C23: in every state of the raw tokenizer the cursor's offset lies
\* within 0..Len(Buffer), its line is the number of newlines before it and
\* its column the number of characters after the last of them; a Move at
\* the end of the buffer fails with EndOfInput and changes nothing, any
\* other Move advances by one character; a Scan, failed or not and with or
\* without the rewind of ScanDigit, never returns with a smaller offset
\* than it started at.
C23_CursorPosition ==
    /\ 0 <= Cursor(p) /\ Cursor(p) <= Len(Buffer)
    /\ p.Scanner.BufferScanner.Pos.Line = Cardinality(NewlinesBefore(Cursor(p)))
    /\ p.Scanner.BufferScanner.Pos.Column = Cursor(p) - LastNewline(Cursor(p))
    /\ last.op = "BasicScanner::Move" =>
          IF Cursor(last.pre) = Len(Buffer)
          THEN /\ last.res = "Err"
               /\ last.err.kind = "EOF"
               /\ p = last.pre
          ELSE /\ last.res = "Ok"
               /\ last.val = Buffer[Cursor(last.pre) + 1]
               /\ Cursor(p) = Cursor(last.pre) + 1
    /\ last.op = "BasicScanner::Scan" => Cursor(p) >= Cursor(last.pre)

\* C23 witness: on the second line of the buffer (newline, `19`, space)
\* a Scan has returned the decimal literal, read after the rewind of
\* ScanDigit, and left the cursor at line 1, column 2.
C23_Witness ==
    /\ last.op = "BasicScanner::Scan"
    /\ Buffer = <<Ch.nl, Ch.d1, Ch.d9, Ch.sp>>
    /\ Cursor(last.pre) = 1
    /\ last.res = "Ok"
    /\ last.val.Kind = BasicInt("DEC")
    /\ Cursor(p) = 3
    /\ p.Scanner.BufferScanner.Pos.Line = 1
    /\ p.Scanner.BufferScanner.Pos.Column = 2
\* C24: Ident::Expect called with a current token whose kind is not Ident
\* fails with UnexpectedToken{Want: Ident, Have: that token}, whatever
\* follows in the input.
C24_IdentMismatch ==
    (last.op = "Expect" /\ last.args = <<"Ident">>
       /\ last.pre.Token.Kind.tag # "Ident") =>
        /\ last.res = "Err"
        /\ last.err = UnexpectedTokenError(TokenKind("Ident"), last.pre.Token)
====
